---- MODULE Spec2Model ----
(***************************************************************************)
(* Voice-message-to-task pipeline (process_voice_messages.py,              *)
(* clickup_client.py, create_clickup_tasks.py): the run coordinator with   *)
(* its cursor/state store, the generic retry executor, the member          *)
(* directory cache, payload building, assignee resolution, the             *)
(* re-creation utility and the run lock.                                   *)
(*                                                                         *)
(* The specifications share the module's variables:                        *)
(*   Spec          run_once, invoked again and again, with crashes         *)
(*   SpecCompleted the same without crashes                                *)
(*   SpecRun       one invocation of run_once over any stored cursor       *)
(*   SpecPolled    the same, the poll succeeding or raising                *)
(*   SpecRetry     _execute_with_retry on one operation                    *)
(*   SpecCache     fetch_clickup_member_map against the cache file         *)
(*   SpecStartup   the assignee map built at the start of run_once         *)
(*   SpecPayload   due date normalization and build_clickup_payload        *)
(*   SpecRecreate  one invocation of create_clickup_tasks.main             *)
(*   SpecResolve   one call of resolve_assignee_ids                        *)
(*   SpecLock      invocations of main under file_lock                     *)
(*   SpecStore     save_state and load_state on the state file, crashes    *)
(*   SpecPool      the download and transcription pools of run_once        *)
(*   SpecHttp      _request_with_retries and create_clickup_task           *)
(*   SpecExtract   extract_tasks_from_text and its collection              *)
(*   SpecOrder     one run over two messages, jobs completing in any order *)
(*   SpecMaterialize the task loop of one message with its reminders       *)
(*   SpecPaging    the paging loop of get_recent_voice_messages            *)
(*   SpecGiven     one run with its arguments and poll result fixed        *)
(*   SpecWriters   two processes refreshing the member cache               *)
(*   SpecRerun     create_clickup_tasks.main invoked twice on one file     *)
(***************************************************************************)
EXTENDS Integers, Sequences, FiniteSets, TLC

\* ------------------------------------------------------------------ bounds

\* Update ids the message source hands out are 1..MaxUpdateId.
MaxUpdateId == 2

\* Audio messages in one poll response.
MaxVoice == 1

\* Task records one extraction returns.
MaxTasks == 2

\* Invocations of run_once in one behaviour.
MaxRuns == 2

\* Python's None for an optional integer (update ids are positive).
None == 0

UpdateIds == 1..MaxUpdateId

\* ------------------------------------------------------------------ state

VARIABLES
    \* --- durable and external state of the pipeline
    state_file,          \* STATE_FILE: the persisted last_update_id, or None
    clickup_tasks,       \* task service: create calls accepted per <<update id, task index>>
    artifacts,           \* update ids whose log entry, with tasks, is in a persisted tasks_to_create_*.json
    \* --- one invocation of run_once
    pc,                  \* position of the run
    budget,              \* invocations of run_once still to come
    dry_run,
    last_update_id,      \* state.get('last_update_id') as loaded by this run
    voice_messages,      \* update ids of the audio messages handed to the pipeline
    max_update_id,       \* maximum update id the poll has seen
    ordered_logs,        \* per-message log entries, in discovery order
    downloaded,          \* indices whose download job has completed
    prepared_messages,   \* indices of the downloaded messages, in completion order
    handled,             \* indices whose transcription future has been consumed
    cur,                 \* index of the message being materialized, 0 when none
    audio_files,         \* indices whose temporary audio file exists
    log_data,            \* voice_messages (the collected log entries) / total_tasks_created / total_tasks_failed
    report_saved,        \* the run has written its processing_log_*.md report
    \* --- history
    processed,           \* update ids downloaded, transcribed and extracted without error
    \* --- one call of _execute_with_retry
    rt_pc,               \* "off", "call", "returned" or "raised"
    max_attempts,        \* the max_attempts argument
    base_delay,          \* the base_delay argument, in seconds
    op_failures,         \* the operation raises on its first op_failures invocations
    op_then,             \* and from then on returns ("ok"), raises ("exc") or is interrupted ("kbd")
    attempt,             \* the loop variable
    invocations,         \* calls of operation() so far
    last_exc,            \* the exception caught last, NoExc when none
    sleeps,              \* the delays slept, in order
    call_result,         \* what the call gave its caller: a result or an exception
    \* --- the member directory cache
    cache_file,          \* MEMBER_CACHE_FILE: absent, or the entries by list id
    now,                 \* the clock, in minutes
    last_call,           \* the last call of fetch_clickup_member_map and what it did
    \* --- the startup of run_once
    st_pc,               \* "off", "start", "poll" (startup done) or "raised"
    config_assignee_map, \* config['assignee_map'] as written: <<key, ids>> pairs in order
    assignee_map,        \* the merged name -> ids map the run works with
    \* --- one task record on its way to the task service
    pl_pc,               \* "off", "task" (extracted), "built" or "raised"
    raw_default_priority,\* config['default_priority'] as written in config.json
    today,               \* today's date in the configured timezone, <<year, month, day>>
    task_record,         \* the task record: its priority and due_date
    task_payload,        \* the payload built for the create call
    \* --- one invocation of the re-creation utility (create_clickup_tasks.py)
    rc_pc,               \* "off", "loop" or "saved"
    rc_args,             \* --force, --dry-run, --limit
    rc_file,             \* the input file: per message, its task records
    rc_tasks,            \* data['voice_messages'], the records as this invocation marks them
    rc_next,             \* how many tasks the loops have gone past, in file order
    processed_count,     \* the counter `processed`
    create_calls,        \* per message and task, the create calls issued
    \* --- one call of resolve_assignee_ids
    rs_pc,               \* "off", "call" or "returned"
    rs_value,            \* the argument assignee_value
    rs_map,              \* the argument assignee_map
    rs_aliases,          \* the argument alias_map
    rs_ids,              \* the list returned
    \* --- invocations of main under file_lock
    lock_primitive,      \* "fcntl", "msvcrt" or "none": the module the platform has
    main_pc,             \* per invocation: "off", "start", "locking", "run_once" or "exited"
    locked,              \* per invocation: the flag `locked` of file_lock
    lock_holder,         \* the invocation whose file handle holds the lock, or None
    \* --- the state file under save_state and load_state
    st_io_pc,            \* "off", "idle", "writing", "closed", "replaced", "saved", "crashed", "loaded" or "raised"
    fs,                  \* the files of the project directory: "state" and "tmp"
    fs_previous,         \* the state file as it was before save_state was called
    io_content,          \* the text save_state is writing
    load_exc,            \* the exception that ended the load, or ""
    poll_cursor,         \* last_update_id as the poll receives it
    poll_filtered,       \* the poll applies the time window
    \* --- the two worker pools of one run, job by job
    wp_pc,               \* the coordinator: "off", "download", "transcribe", "unwinding", "returned" or "raised"
    wp_count,            \* len(voice_messages)
    dl_job,              \* per message, its download job: "queued", "running", "ok" or "failed"
    dl_seen,             \* the messages whose download future the coordinator has consumed
    wp_prepared,         \* prepared_messages, in the order the futures completed
    tr_job,              \* per message, its transcription job: "none", "queued", "running", "ok" or "failed"
    tr_runs,             \* per message, the executions of _transcribe_and_extract
    tr_seen,             \* the messages whose transcription future the coordinator has consumed
    temp_files,          \* the messages whose temporary audio file exists
    log_error,           \* per message, the stage whose error its log entry carries, or ""
    \* --- one HTTP call under a retry policy
    hx_pc,               \* "off", "request", "returned" or "raised"
    hx_policy,           \* "_request_with_retries" or "create_clickup_task"
    hx_attempt,          \* the attempt about to be made, from 1
    hx_responses,        \* what each request so far met: a status, or TransportError
    hx_sleeps,           \* the delays slept so far, in half seconds
    hx_error,            \* the exception raised to the caller, or ""
    \* --- the extraction of the tasks of one message
    ex_pc,               \* "off", "call", "extracted", "failed" or "collected"
    ex_response,         \* what the extraction service answers when its call succeeds
    ex_log_error,        \* the log entry of the message carries an error
    ex_tasks,            \* the task records put on the log entry
    ex_created,          \* the create calls issued for the message
    \* --- what the services do to each message of one run
    scenario,            \* per update id: the download, the extraction, each create call
    \* --- the task loop of one message, create call by create call
    mt_pc,               \* "off", "loop" or "done"
    mt_program,          \* "run_once" or "create_clickup_tasks"
    reminders_enabled,   \* bool(clickup_team_id and config['create_clickup_reminders'])
    reminder_offset_hours, \* config['reminder_offset_hours']
    mt_tasks,            \* the task records of the message
    mt_k,                \* the tasks the loop has gone past
    mt_totals,           \* the counters of created and failed tasks
    mt_events,           \* the calls and pauses of the loop, in order
    \* --- the paging loop of get_recent_voice_messages
    pg_pc,               \* "off", "request" or "returned"
    pg_offset,           \* the offset parameter of the next request, or None
    pg_max,              \* max_update_id
    pg_voice,            \* the update ids of the audio messages collected
    pg_requests,         \* the getUpdates requests made
    \* --- what one invocation of run_once is given
    run_input,           \* --dry-run, --limit and the updates its poll returns
    \* --- two processes refreshing the member cache
    cw_pc,               \* per process: "off", "fetch", "read", "write" or "done"
    cw_file,             \* MEMBER_CACHE_FILE as both processes see it
    cw_members,          \* per process, the member map its request has given
    cw_read,             \* per process, the file as _save_member_cache has read it
    \* --- the re-creation utility invoked twice on one input file
    rr_run,              \* 0 when off, else the invocation under way: 1 or 2
    rr_out,              \* the sibling file *_with_clickup.json
    rr_first_calls       \* the create calls the first invocation issued

pipeVars == <<state_file, clickup_tasks, artifacts, report_saved, pc, budget, dry_run,
              last_update_id, voice_messages, max_update_id, ordered_logs,
              downloaded, prepared_messages, handled, cur, audio_files, log_data,
              processed>>

retryVars == <<rt_pc, max_attempts, base_delay, op_failures, op_then, attempt,
               invocations, last_exc, sleeps, call_result>>

cacheVars == <<cache_file, now, last_call>>

startupVars == <<st_pc, config_assignee_map, assignee_map>>

payloadVars == <<pl_pc, raw_default_priority, today, task_record, task_payload>>

recreateVars == <<rc_pc, rc_args, rc_file, rc_tasks, rc_next, processed_count, create_calls>>

resolveVars == <<rs_pc, rs_value, rs_map, rs_aliases, rs_ids>>

lockVars == <<lock_primitive, main_pc, locked, lock_holder>>

storeVars == <<st_io_pc, fs, fs_previous, io_content, load_exc, poll_cursor, poll_filtered>>

poolVars == <<wp_pc, wp_count, dl_job, dl_seen, wp_prepared, tr_job, tr_runs, tr_seen, temp_files, log_error>>

httpVars == <<hx_pc, hx_policy, hx_attempt, hx_responses, hx_sleeps, hx_error>>

extractVars == <<ex_pc, ex_response, ex_log_error, ex_tasks, ex_created>>

orderVars == <<scenario>>

materializeVars == <<mt_pc, mt_program, reminders_enabled, reminder_offset_hours, mt_tasks, mt_k, mt_totals, mt_events>>

pagingVars == <<pg_pc, pg_offset, pg_max, pg_voice, pg_requests>>

inputVars == <<run_input>>

writerVars == <<cw_pc, cw_file, cw_members, cw_read>>

rerunVars == <<rr_run, rr_out, rr_first_calls>>

vars == <<pipeVars, retryVars, cacheVars, startupVars, payloadVars, recreateVars, resolveVars,
          lockVars, storeVars, poolVars, httpVars, extractVars, orderVars, materializeVars,
          pagingVars, inputVars, writerVars, rerunVars>>

\* What a step of the pipeline leaves alone.
otherThanPipeline == <<retryVars, cacheVars, startupVars, payloadVars, recreateVars,
                       resolveVars, lockVars, storeVars, poolVars, httpVars, extractVars,
                       orderVars, materializeVars, pagingVars, inputVars, writerVars, rerunVars>>

otherThanRetry == <<pipeVars, cacheVars, startupVars, payloadVars, recreateVars, resolveVars,
                    lockVars, storeVars, poolVars, httpVars, extractVars, orderVars,
                    materializeVars, pagingVars, inputVars, writerVars, rerunVars>>

otherThanCache == <<pipeVars, retryVars, startupVars, payloadVars, recreateVars, resolveVars,
                    lockVars, storeVars, poolVars, httpVars, extractVars, orderVars,
                    materializeVars, pagingVars, inputVars, writerVars, rerunVars>>

\* What the startup of a run leaves alone besides the cache it reads.
otherThanStartup == <<pipeVars, retryVars, payloadVars, recreateVars, resolveVars, lockVars,
                      storeVars, poolVars, httpVars, extractVars, orderVars, materializeVars,
                      pagingVars, inputVars, writerVars, rerunVars>>

otherThanPayload == <<pipeVars, retryVars, cacheVars, startupVars, recreateVars, resolveVars,
                      lockVars, storeVars, poolVars, httpVars, extractVars, orderVars,
                      materializeVars, pagingVars, inputVars, writerVars, rerunVars>>

otherThanRecreate == <<pipeVars, retryVars, cacheVars, startupVars, payloadVars, resolveVars,
                       lockVars, storeVars, poolVars, httpVars, extractVars, orderVars,
                       materializeVars, pagingVars, inputVars, writerVars, rerunVars>>

otherThanResolve == <<pipeVars, retryVars, cacheVars, startupVars, payloadVars, recreateVars,
                      lockVars, storeVars, poolVars, httpVars, extractVars, orderVars,
                      materializeVars, pagingVars, inputVars, writerVars, rerunVars>>

otherThanLock == <<pipeVars, retryVars, cacheVars, startupVars, payloadVars, recreateVars,
                   resolveVars, storeVars, poolVars, httpVars, extractVars, orderVars,
                   materializeVars, pagingVars, inputVars, writerVars, rerunVars>>

otherThanStore == <<pipeVars, retryVars, cacheVars, startupVars, payloadVars, recreateVars,
                    resolveVars, lockVars, poolVars, httpVars, extractVars, orderVars,
                    materializeVars, pagingVars, inputVars, writerVars, rerunVars>>

otherThanPool == <<pipeVars, retryVars, cacheVars, startupVars, payloadVars, recreateVars,
                   resolveVars, lockVars, storeVars, httpVars, extractVars, orderVars,
                   materializeVars, pagingVars, inputVars, writerVars, rerunVars>>

otherThanHttp == <<pipeVars, retryVars, cacheVars, startupVars, payloadVars, recreateVars,
                   resolveVars, lockVars, storeVars, poolVars, extractVars, orderVars,
                   materializeVars, pagingVars, inputVars, writerVars, rerunVars>>

otherThanExtract == <<pipeVars, retryVars, cacheVars, startupVars, payloadVars, recreateVars,
                      resolveVars, lockVars, storeVars, poolVars, httpVars, orderVars,
                      materializeVars, pagingVars, inputVars, writerVars, rerunVars>>

otherThanOrder == <<pipeVars, retryVars, cacheVars, startupVars, payloadVars, recreateVars,
                    resolveVars, lockVars, storeVars, poolVars, httpVars, extractVars,
                    materializeVars, pagingVars, inputVars, writerVars, rerunVars>>

otherThanMaterialize == <<pipeVars, retryVars, cacheVars, startupVars, payloadVars,
                          recreateVars, resolveVars, lockVars, storeVars, poolVars, httpVars,
                          extractVars, orderVars, pagingVars, inputVars, writerVars, rerunVars>>

otherThanPaging == <<pipeVars, retryVars, cacheVars, startupVars, payloadVars, recreateVars,
                     resolveVars, lockVars, storeVars, poolVars, httpVars, extractVars,
                     orderVars, materializeVars, inputVars, writerVars, rerunVars>>

otherThanInput == <<pipeVars, retryVars, cacheVars, startupVars, payloadVars, recreateVars,
                    resolveVars, lockVars, storeVars, poolVars, httpVars, extractVars,
                    orderVars, materializeVars, pagingVars, writerVars, rerunVars>>

otherThanWriters == <<pipeVars, retryVars, cacheVars, startupVars, payloadVars, recreateVars,
                      resolveVars, lockVars, storeVars, poolVars, httpVars, extractVars,
                      orderVars, materializeVars, pagingVars, inputVars, rerunVars>>

otherThanRerun == <<pipeVars, retryVars, cacheVars, startupVars, payloadVars, recreateVars,
                    resolveVars, lockVars, storeVars, poolVars, httpVars, extractVars,
                    orderVars, materializeVars, pagingVars, inputVars, writerVars>>

besidesRecreation == <<pipeVars, retryVars, cacheVars, startupVars, payloadVars, resolveVars,
                       lockVars, storeVars, poolVars, httpVars, extractVars, orderVars,
                       materializeVars, pagingVars, inputVars, writerVars>>

\* ------------------------------------------------------------------ helpers

Max(a, b) == IF a >= b THEN a ELSE b

RECURSIVE SeqMax(_)
SeqMax(s) == IF s = <<>> THEN None ELSE Max(Head(s), SeqMax(Tail(s)))

Range(s) == {s[i] : i \in DOMAIN s}

Min(a, b) == IF a <= b THEN a ELSE b

\* Sequences over S of length at most n without a repeated element.
RECURSIVE DistinctSeqs(_, _)
DistinctSeqs(S, n) ==
    IF n = 0 THEN {<<>>}
    ELSE LET shorter == DistinctSeqs(S, n - 1)
         IN  shorter \cup {Append(t, x) : <<t, x>> \in
                             {<<t, x>> \in shorter \X S : x \notin Range(t)}}

\* Sequences over S of length at most n.
RECURSIVE SeqsUpTo(_, _)
SeqsUpTo(S, n) ==
    IF n = 0 THEN {<<>>}
    ELSE LET shorter == SeqsUpTo(S, n - 1)
         IN  shorter \cup {Append(t, x) : t \in {u \in shorter : Len(u) = n - 1}, x \in S}

\* ------------------------------------------------------------------ poll

\* What argparse leaves in --limit when the option is absent (None); a negative
\* number means the same to run_once.
NoLimit == -1

\* One update of a getUpdates page: audio is TRUE for a voice or audio message of
\* the configured chat inside the time window, FALSE for every other update.
Updates == [update_id : UpdateIds, audio : BOOLEAN]

\* The pages the message source may answer with: audio messages with distinct
\* ids in any order, then at most one update that is no audio message.
PollResponses ==
    {v \o o : <<v, o>> \in
        {[i \in DOMAIN t |-> [update_id |-> t[i], audio |-> TRUE]] :
            t \in DistinctSeqs(UpdateIds, MaxVoice)}
        \X ({<<>>} \cup {<<[update_id |-> u, audio |-> FALSE]>> : u \in UpdateIds})}

\* The for-loop over one page of updates: the maximum id seen so far and the
\* audio messages collected, in discovery order.
RECURSIVE ScanUpdates(_, _, _)
ScanUpdates(updates, voices, maxid) ==
    IF updates = <<>>
    THEN [voice_messages |-> voices, max_update_id |-> maxid]
    ELSE LET u == Head(updates)
             m == IF maxid = None THEN u.update_id ELSE Max(maxid, u.update_id)
         IN  ScanUpdates(Tail(updates),
                         IF u.audio THEN Append(voices, u.update_id) ELSE voices,
                         m)

\* One short page ends the paging loop: max_update_id starts at last_update_id.
get_recent_voice_messages(last, updates) == ScanUpdates(updates, <<>>, last)

\* voice_messages[:limit_messages] when a limit >= 0 is given.
ApplyLimit(messages, limit_messages) ==
    IF limit_messages # NoLimit /\ limit_messages >= 0
    THEN SubSeq(messages, 1, Min(limit_messages, Len(messages)))
    ELSE messages

\* max of the update ids of the messages, None for an empty list.
max_voice_update_id(messages) == SeqMax(messages)

initial_vm_log(update_id) ==
    [update_id |-> update_id, error |-> FALSE, has_tasks |-> FALSE, tasks |-> <<>>,
     clickup_created |-> 0, clickup_failed |-> 0]

\* A task record as extraction returns it, before any annotation.
ExtractedTask ==
    [clickup_task_id |-> FALSE, clickup_error |-> FALSE, clickup_dry_run |-> FALSE,
     clickup_reminder |-> FALSE]

Attempted(task) == task.clickup_task_id \/ task.clickup_error \/ task.clickup_dry_run

\* ------------------------------------------------------------------ run_once

InitPipeline(stored, runs) ==
    /\ state_file = stored
    /\ budget = runs
    /\ clickup_tasks = [m \in UpdateIds |-> [k \in 1..MaxTasks |-> 0]]
    /\ artifacts = {}
    /\ report_saved = FALSE
    /\ pc = "idle"
    /\ dry_run = FALSE
    /\ last_update_id = None
    /\ voice_messages = <<>>
    /\ max_update_id = None
    /\ ordered_logs = <<>>
    /\ downloaded = {}
    /\ prepared_messages = <<>>
    /\ handled = {}
    /\ cur = 0
    /\ audio_files = {}
    /\ log_data = [voice_messages |-> <<>>, total_tasks_created |-> 0,
                  total_tasks_failed |-> 0]
    /\ processed = {}

\* Where the run goes once no download is outstanding.
AfterDownloads(prepared) == IF prepared # <<>> THEN "transcribe" ELSE "persist"

\* Where the run goes once a transcription future has been consumed.
AfterFuture(done, prepared) ==
    IF done = Range(prepared) THEN "persist" ELSE "transcribe"

\* run_once up to the submission of the download jobs: load the cursor, poll,
\* apply the message limit, allocate the log entries.
StartRun(dry, limit_messages, updates) ==
    /\ pc = "idle"
    /\ budget > 0
    /\ LET polledNow == get_recent_voice_messages(state_file, updates)
           messages  == ApplyLimit(polledNow.voice_messages, limit_messages)
       IN  /\ last_update_id' = state_file
           /\ voice_messages' = messages
           /\ max_update_id' = polledNow.max_update_id
           /\ ordered_logs' = [i \in DOMAIN messages |-> initial_vm_log(messages[i])]
           /\ pc' = IF messages # <<>> THEN "download" ELSE "persist"
    /\ budget' = budget - 1
    /\ dry_run' = dry
    /\ downloaded' = {}
    /\ prepared_messages' = <<>>
    /\ handled' = {}
    /\ cur' = 0
    /\ audio_files' = {}
    /\ log_data' = [voice_messages |-> <<>>, total_tasks_created |-> 0,
                  total_tasks_failed |-> 0]
    /\ report_saved' = FALSE
    /\ UNCHANGED <<state_file, clickup_tasks, artifacts, processed>>
    /\ UNCHANGED otherThanPipeline

\* The poll raises, after its retries or on a response that is not ok: nothing
\* in run_once or main catches it, and the invocation ends there.
PollRaises ==
    /\ pc = "idle"
    /\ budget > 0
    /\ pc' = "raised"
    /\ budget' = budget - 1
    /\ UNCHANGED <<state_file, clickup_tasks, artifacts, report_saved, dry_run,
                   last_update_id, voice_messages, max_update_id, ordered_logs,
                   downloaded, prepared_messages, handled, cur, audio_files, log_data,
                   processed>>
    /\ UNCHANGED otherThanPipeline

\* One download job completes and the coordinator consumes its future.
DownloadDone(i, ok) ==
    /\ pc = "download"
    /\ i \in DOMAIN voice_messages
    /\ i \notin downloaded
    /\ downloaded' = downloaded \cup {i}
    /\ IF ok
       THEN /\ prepared_messages' = Append(prepared_messages, i)
            /\ audio_files' = audio_files \cup {i}
            /\ UNCHANGED ordered_logs
       ELSE /\ ordered_logs' = [ordered_logs EXCEPT ![i].error = TRUE]
            /\ UNCHANGED <<prepared_messages, audio_files>>
    /\ pc' = IF downloaded' = DOMAIN voice_messages
             THEN AfterDownloads(prepared_messages')
             ELSE "download"
    /\ UNCHANGED <<state_file, clickup_tasks, artifacts, report_saved, budget, dry_run,
                   last_update_id, voice_messages, max_update_id, handled, cur,
                   log_data, processed>>
    /\ UNCHANGED otherThanPipeline

\* A transcription-and-extraction job ends with an exception: the error goes
\* to the message's log entry, the audio file is removed.
TranscribeFailed(i) ==
    /\ pc = "transcribe"
    /\ cur = 0
    /\ i \in Range(prepared_messages) \ handled
    /\ ordered_logs' = [ordered_logs EXCEPT ![i].error = TRUE]
    /\ audio_files' = audio_files \ {i}
    /\ handled' = handled \cup {i}
    /\ pc' = AfterFuture(handled', prepared_messages)
    /\ UNCHANGED <<state_file, clickup_tasks, artifacts, report_saved, budget, dry_run,
                   last_update_id, voice_messages, max_update_id, downloaded,
                   prepared_messages, cur, log_data, processed>>
    /\ UNCHANGED otherThanPipeline

\* A transcription-and-extraction job returns n task records: they are put on
\* the log entry; with no task the audio file is removed at once, otherwise the
\* coordinator starts to materialize them.
TranscribeDone(i, n) ==
    /\ pc = "transcribe"
    /\ cur = 0
    /\ i \in Range(prepared_messages) \ handled
    /\ ordered_logs' = [ordered_logs EXCEPT ![i].has_tasks = TRUE,
                                            ![i].tasks = [k \in 1..n |-> ExtractedTask]]
    /\ processed' = processed \cup {voice_messages[i]}
    /\ IF n = 0
       THEN /\ audio_files' = audio_files \ {i}
            /\ handled' = handled \cup {i}
            /\ cur' = 0
            /\ pc' = AfterFuture(handled', prepared_messages)
       ELSE /\ cur' = i
            /\ UNCHANGED <<audio_files, handled, pc>>
    /\ UNCHANGED <<state_file, clickup_tasks, artifacts, report_saved, budget, dry_run,
                   last_update_id, voice_messages, max_update_id, downloaded,
                   prepared_messages, log_data>>
    /\ UNCHANGED otherThanPipeline

\* Index of the next task of the message being materialized.
NextTask(tasks) == CHOOSE k \in DOMAIN tasks :
                       /\ ~Attempted(tasks[k])
                       /\ \A j \in 1..(k - 1) : Attempted(tasks[j])

\* What the create call gives: an exception after the retries ("error"), a
\* response that carries an id ("created"), a response without one ("no_id").
CreateOutcomes == {"error", "created", "no_id"}

\* What follows a created task: no reminder is due ("skip"), the reminder call
\* succeeds ("ok") or raises ("fail").
ReminderOutcomes == {"skip", "ok", "fail"}

\* A loop that makes the create call in a dry run as well.
MaterializedTaskCalled(task, dry, outcome, reminder) ==
    IF outcome = "created"
    THEN [task EXCEPT !.clickup_task_id = TRUE, !.clickup_reminder = (reminder = "ok")]
    ELSE [task EXCEPT !.clickup_error = TRUE]

\* The annotations one pass of the task loop leaves on a task record.
MaterializedTask(task, dry, outcome, reminder) ==
    IF dry THEN [task EXCEPT !.clickup_dry_run = TRUE]
    ELSE IF outcome = "created"
         THEN [task EXCEPT !.clickup_task_id = TRUE,
                           !.clickup_reminder = (reminder = "ok")]
         ELSE [task EXCEPT !.clickup_error = TRUE]

CreatedCount(tasks) == Cardinality({k \in DOMAIN tasks : tasks[k].clickup_task_id})

\* A loop that counts a response without an id as a success.
CountsAsFailedOnErrorOnly(outcome) == outcome = "error"

\* The create call failed: it raised, or its response carries no id.
CountsAsFailed(outcome) == outcome # "created"

\* A loop that gives up the message at the first failed create call.
LoopEndsOnFailure(k, tasks, failed) == k = Len(tasks) \/ failed

\* The task loop ends with the last task of the message, failed or not.
LoopEnds(k, tasks, failed) == k = Len(tasks)

\* One pass of the task loop for the message being materialized; after the
\* last task the per-message created count is recorded and the audio file is
\* removed.
CreateTask(outcome, reminder) ==
    /\ pc = "transcribe"
    /\ cur # 0
    /\ dry_run => (outcome = "created" /\ reminder = "skip")
    /\ outcome # "created" => reminder = "skip"
    /\ LET tasks  == ordered_logs[cur].tasks
           k      == NextTask(tasks)
           m      == voice_messages[cur]
           called == ~dry_run
           failed == called /\ CountsAsFailed(outcome)
           after  == [tasks EXCEPT ![k] = MaterializedTask(tasks[k], dry_run, outcome, reminder)]
           last   == LoopEnds(k, tasks, failed)
       IN  /\ ordered_logs' =
                 [ordered_logs EXCEPT
                    ![cur].tasks = after,
                    ![cur].clickup_failed = @ + (IF failed THEN 1 ELSE 0),
                    ![cur].clickup_created = IF last THEN CreatedCount(after) ELSE @]
           /\ log_data' =
                 [log_data EXCEPT
                    !.total_tasks_created = @ + (IF called /\ ~failed THEN 1 ELSE 0),
                    !.total_tasks_failed = @ + (IF failed THEN 1 ELSE 0)]
           /\ clickup_tasks' =
                 IF called /\ ~failed
                 THEN [clickup_tasks EXCEPT ![m][k] = @ + 1]
                 ELSE clickup_tasks
           /\ IF last
              THEN /\ audio_files' = audio_files \ {cur}
                   /\ handled' = handled \cup {cur}
                   /\ cur' = 0
                   /\ pc' = AfterFuture(handled', prepared_messages)
              ELSE UNCHANGED <<audio_files, handled, cur, pc>>
    /\ UNCHANGED <<state_file, artifacts, report_saved, budget, dry_run, last_update_id,
                   voice_messages, max_update_id, downloaded, prepared_messages,
                   processed>>
    /\ UNCHANGED otherThanPipeline

\* A run that prefers the maximum id the poll has seen.
state_update_id_seen_first(messages, maxSeen) ==
    IF maxSeen # None THEN maxSeen ELSE max_voice_update_id(messages)

\* The id the run wants to persist: the maximum id handed to the pipeline, else
\* the maximum id the poll has seen.
state_update_id(messages, maxSeen) ==
    IF max_voice_update_id(messages) # None
    THEN max_voice_update_id(messages)
    ELSE maxSeen

\* Whether the run writes the state file.
CursorWritten(new, stored) == new # None /\ new # stored

\* A collection that keeps the entries of the extracted messages only.
CollectedWithTasks(logs) == SelectSeq(logs, LAMBDA entry : entry.has_tasks)

\* [log for log in ordered_logs if log]: every entry is a record with fields,
\* so every entry is kept, in the order of ordered_logs.
CollectedLogs(logs) == SelectSeq(logs, LAMBDA entry : TRUE)

\* The logs are collected and the cursor is persisted.
SaveState ==
    /\ pc = "persist"
    /\ log_data' = [log_data EXCEPT !.voice_messages = CollectedLogs(ordered_logs)]
    /\ state_file' =
          IF CursorWritten(state_update_id(voice_messages, max_update_id), last_update_id)
          THEN state_update_id(voice_messages, max_update_id)
          ELSE state_file
    /\ pc' = "report"
    /\ UNCHANGED <<clickup_tasks, artifacts, report_saved, budget, dry_run, last_update_id,
                   voice_messages, max_update_id, ordered_logs, downloaded,
                   prepared_messages, handled, cur, audio_files, processed>>
    /\ UNCHANGED otherThanPipeline

\* save_processing_log: the human-readable report is written.
SaveReport ==
    /\ pc = "report"
    /\ report_saved' = TRUE
    /\ pc' = "artifact"
    /\ UNCHANGED <<state_file, clickup_tasks, artifacts, budget, dry_run, last_update_id,
                   voice_messages, max_update_id, ordered_logs, downloaded,
                   prepared_messages, handled, cur, audio_files, log_data, processed>>
    /\ UNCHANGED otherThanPipeline

\* Update ids of the log entries that carry a task list.
LoggedWithTasks(logs) == {logs[i].update_id : i \in {j \in DOMAIN logs : logs[j].has_tasks}}

\* The machine-readable result (log_data with every log entry) is written and
\* the run returns.
SaveArtifact ==
    /\ pc = "artifact"
    /\ artifacts' = artifacts \cup LoggedWithTasks(ordered_logs)
    /\ pc' = "done"
    /\ UNCHANGED <<state_file, clickup_tasks, report_saved, budget, dry_run, last_update_id,
                   voice_messages, max_update_id, ordered_logs, downloaded,
                   prepared_messages, handled, cur, audio_files, log_data, processed>>
    /\ UNCHANGED otherThanPipeline

\* The process dies (kill, power loss, an exception nothing catches) at any
\* point of a run; only what was persisted or sent survives.
Crash ==
    /\ pc \in {"download", "transcribe", "persist", "report", "artifact"}
    /\ pc' = "crashed"
    /\ UNCHANGED <<state_file, clickup_tasks, artifacts, report_saved, budget, dry_run,
                   last_update_id, voice_messages, max_update_id, ordered_logs,
                   downloaded, prepared_messages, handled, cur, audio_files, log_data,
                   processed>>
    /\ UNCHANGED otherThanPipeline

\* The process of a run that has returned or crashed is gone, and with it
\* everything the run held in memory; the next invocation starts afresh.
ProcessExit ==
    /\ pc \in {"done", "crashed"}
    /\ pc' = "idle"
    /\ dry_run' = FALSE
    /\ last_update_id' = None
    /\ voice_messages' = <<>>
    /\ max_update_id' = None
    /\ ordered_logs' = <<>>
    /\ downloaded' = {}
    /\ prepared_messages' = <<>>
    /\ handled' = {}
    /\ cur' = 0
    /\ audio_files' = {}
    /\ log_data' = [voice_messages |-> <<>>, total_tasks_created |-> 0,
                  total_tasks_failed |-> 0]
    /\ report_saved' = FALSE
    /\ UNCHANGED <<state_file, clickup_tasks, artifacts, budget, processed>>
    /\ UNCHANGED otherThanPipeline

\* ------------------------------------------------------------------ _execute_with_retry

\* Largest max_attempts and longest run of failures tried.
MaxAttempts == 5

MaxFailures == 4

\* The default of the base_delay argument, in seconds.
DefaultBaseDelay == 2

\* An exception object: its type and the invocation of the operation that
\* raised it (0 when the executor made it itself).
Exc(type, id) == [type |-> type, id |-> id]

NoExc == Exc("none", 0)

\* The type of the exceptions the operation raises.
OperationError == "ValueError"

NoOutcome == [kind |-> "none", value |-> "", exc |-> NoExc]

Returned(value) == [kind |-> "result", value |-> value, exc |-> NoExc]

Raised(exc) == [kind |-> "raised", value |-> "", exc |-> exc]

\* What invocation n of the operation does.
OpOutcome(n) == IF n <= op_failures THEN "exc" ELSE op_then

\* attempts = max(1, max_attempts)
Attempts(requested) == Max(1, requested)

\* An executor that gives up one attempt early.
ExhaustedOneEarly(a, total) == a + 1 >= total

\* The loop leaves after a failure when no attempt remains.
Exhausted(a, total) == a >= total

\* sleep_for = base_delay * (2 ** (attempt - 1))
BackoffDelay(base, a) == base * 2 ^ (a - 1)

\* An executor that wraps the error it gives up with.
ExhaustedErrorWrapped(last) == Exc("RuntimeError", 0)

\* What is raised after the loop: the exception caught last, and a
\* RuntimeError of the executor's own when there is none.
ExhaustedError(last) == IF last # NoExc THEN last ELSE Exc("RuntimeError", 0)

\* An executor that treats an interrupt like any other exception.
PassedOnNever(what) == FALSE

\* except KeyboardInterrupt: raise
PassedOn(what) == what = "kbd"

RetryOff ==
    /\ rt_pc = "off"
    /\ max_attempts = 0
    /\ base_delay = 0
    /\ op_failures = 0
    /\ op_then = "ok"
    /\ attempt = 0
    /\ invocations = 0
    /\ last_exc = NoExc
    /\ sleeps = <<>>
    /\ call_result = NoOutcome

\* One pass of the loop: the operation is invoked; its result is returned, an
\* interrupt is passed on, any other exception is kept and, unless the attempts
\* are used up, followed by the backoff sleep.
RetryAttempt ==
    /\ rt_pc = "call"
    /\ invocations' = invocations + 1
    /\ LET what == OpOutcome(invocations + 1)
           exc  == Exc(OperationError, invocations + 1)
       IN  CASE what = "ok" ->
                  /\ rt_pc' = "returned"
                  /\ call_result' = Returned("ok")
                  /\ UNCHANGED <<last_exc, sleeps, attempt>>
             [] PassedOn(what) ->
                  /\ rt_pc' = "raised"
                  /\ call_result' = Raised(Exc("KeyboardInterrupt", invocations + 1))
                  /\ UNCHANGED <<last_exc, sleeps, attempt>>
             [] OTHER ->
                  /\ last_exc' = exc
                  /\ IF Exhausted(attempt, Attempts(max_attempts))
                     THEN /\ rt_pc' = "raised"
                          /\ call_result' = Raised(ExhaustedError(exc))
                          /\ UNCHANGED <<sleeps, attempt>>
                     ELSE /\ sleeps' = Append(sleeps, BackoffDelay(base_delay, attempt))
                          /\ attempt' = attempt + 1
                          /\ UNCHANGED <<rt_pc, call_result>>
    /\ UNCHANGED <<max_attempts, base_delay, op_failures, op_then>>
    /\ UNCHANGED otherThanRetry

\* ------------------------------------------------------------------ member directory cache

ListIds == {"A", "B"}

\* Largest cache TTL tried, and the last minute of the clock.
MaxTtl == 1

MaxTime == 2

Lower(c) ==
    CASE c = "A" -> "a" [] c = "B" -> "b" [] c = "N" -> "n" [] c = "D" -> "d" [] OTHER -> c

\* str.split(): the words between runs of whitespace.
RECURSIVE SplitWords(_, _, _)
SplitWords(s, word, words) ==
    LET closed == IF word = <<>> THEN words ELSE Append(words, word)
    IN  IF s = <<>> THEN closed
        ELSE IF Head(s) = " " THEN SplitWords(Tail(s), <<>>, closed)
        ELSE SplitWords(Tail(s), Append(word, Head(s)), words)

\* " ".join(words)
RECURSIVE JoinWords(_)
JoinWords(words) ==
    IF words = <<>> THEN <<>>
    ELSE IF Len(words) = 1 THEN words[1]
    ELSE words[1] \o <<" ">> \o JoinWords(Tail(words))

\* " ".join(name.strip().lower().split())
normalize_name(name) ==
    JoinWords(SplitWords([i \in DOMAIN name |-> Lower(name[i])], <<>>, <<>>))

EmptyMap == <<>>

\* A member of the list: the user's id and one textual identifier, character
\* by character as the directory gives it.
Member(id, username) == [id |-> id, username |-> username]

\* The member lists the directory answers with: none; one member; two
\* members whose names differ in case and spacing only; a name with inner
\* spacing; a blank name.
DirectoryMembers ==
    { <<>>,
      <<Member(1, <<"A">>)>>,
      <<Member(2, <<" ", "a", " ">>)>>,
      <<Member(1, <<"A">>), Member(2, <<" ", "a", " ">>)>>,
      <<Member(1, <<"B", " ", " ", "o">>)>>,
      <<Member(2, <<" ">>)>> }

\* What the GET of the list gives: a transport or HTTP failure after the
\* retries, a body whose "members" is not a list, or a list of members.
NoResponse == [kind |-> "none", members |-> <<>>]

NetworkResponses ==
    {[kind |-> "error", members |-> <<>>], [kind |-> "not_list", members |-> <<>>]}
    \cup {[kind |-> "members", members |-> ms] : ms \in DirectoryMembers}

\* The loop over the members: each normalized, non-empty identifier maps to
\* the ids of the members carrying it, each id once, in order of arrival.
RECURSIVE BuildMemberMap(_, _)
BuildMemberMap(members, member_map) ==
    IF members = <<>> THEN member_map
    ELSE LET member_id  == Head(members).id
             normalized == normalize_name(Head(members).username)
             updated ==
                 IF normalized = <<>> THEN member_map
                 ELSE IF normalized \notin DOMAIN member_map
                      THEN member_map @@ (normalized :> <<member_id>>)
                 ELSE IF member_id \in Range(member_map[normalized]) THEN member_map
                 ELSE [member_map EXCEPT ![normalized] = Append(@, member_id)]
         IN  BuildMemberMap(Tail(members), updated)

NoFile == [exists |-> FALSE, lists |-> <<>>]

Miss == [hit |-> FALSE, members |-> EmptyMap]

\* An expiry test that also turns away an entry exactly ttl minutes old.
ExpiredAtTtl(t, fetched_at, ttl_minutes) == t - fetched_at >= ttl_minutes

\* datetime.now() - fetched_at > timedelta(minutes=ttl_minutes)
Expired(t, fetched_at, ttl_minutes) == t - fetched_at > ttl_minutes

\* The cached map of the list when caching is on and the file holds an entry
\* of the list that has not expired. The file is written by
\* save_member_cache only, so its entries are structurally valid.
load_member_cache(file, list_id, ttl_minutes, t) ==
    IF ttl_minutes <= 0 \/ ~file.exists THEN Miss
    ELSE IF list_id \notin DOMAIN file.lists THEN Miss
    ELSE IF Expired(t, file.lists[list_id].fetched_at, ttl_minutes) THEN Miss
    ELSE [hit |-> TRUE, members |-> file.lists[list_id].members]

\* The payload the writer starts from: the "lists" of the file it reads back,
\* and none when there is no file.
CachePayload(file) == IF file.exists THEN file.lists ELSE <<>>

\* A writer that stamps every entry of the file with the time of the write.
save_member_cache_restamped(file, list_id, members, t) ==
    [exists |-> TRUE,
     lists  |-> [l \in (IF file.exists THEN DOMAIN file.lists ELSE {}) \cup {list_id} |->
                    IF l = list_id THEN [fetched_at |-> t, members |-> members]
                    ELSE [file.lists[l] EXCEPT !.fetched_at = t]]]

\* The file after the entry of the list is set and the payload replaced
\* atomically.
save_member_cache(file, list_id, members, t) ==
    LET payload == CachePayload(file)
    IN  [exists |-> TRUE,
         lists  |-> [l \in DOMAIN payload \cup {list_id} |->
                        IF l = list_id THEN [fetched_at |-> t, members |-> members]
                        ELSE payload[l]]]

\* A guard that lets a TTL of zero through to the writer.
CachingOnAlways(ttl_minutes) == ttl_minutes >= 0

\* if ttl_minutes > 0: _save_member_cache(...)
CachingOn(ttl_minutes) == ttl_minutes > 0

NoCall ==
    [called |-> FALSE, list_id |-> "", ttl_minutes |-> 0, at |-> 0,
     cache_before |-> NoFile, network |-> FALSE, response |-> NoResponse,
     wrote |-> FALSE, raised |-> FALSE, result |-> EmptyMap]

CacheOff ==
    /\ cache_file = NoFile
    /\ now = 0
    /\ last_call = NoCall

\* A fetch that lets the failure of the request out to its caller.
FailedFetchRaises == [raised |-> TRUE, result |-> EmptyMap]

\* except RequestException: the failure is logged and an empty map returned.
FailedFetch == [raised |-> FALSE, result |-> EmptyMap]

\* One call fetch_clickup_member_map(token, list_id, cache_ttl_minutes) with a
\* token and a list id, which both callers have checked to be non-empty.
fetch_clickup_member_map(list_id, cache_ttl_minutes, response) ==
    LET ttl_minutes == cache_ttl_minutes
        cached      == load_member_cache(cache_file, list_id, ttl_minutes, now)
        call        == [called |-> TRUE, list_id |-> list_id,
                        ttl_minutes |-> ttl_minutes, at |-> now,
                        cache_before |-> cache_file, network |-> ~cached.hit,
                        response |-> IF cached.hit THEN NoResponse ELSE response,
                        wrote |-> FALSE, raised |-> FALSE, result |-> EmptyMap]
        member_map  == BuildMemberMap(response.members, EmptyMap)
    IN  /\ IF cached.hit
           THEN /\ last_call' = [call EXCEPT !.result = cached.members]
                /\ UNCHANGED cache_file
           ELSE IF response.kind = "error"
           THEN /\ last_call' = [call EXCEPT !.raised = FailedFetch.raised,
                                             !.result = FailedFetch.result]
                /\ UNCHANGED cache_file
           ELSE IF response.kind # "members"
           THEN /\ last_call' = call
                /\ UNCHANGED cache_file
           ELSE IF CachingOn(ttl_minutes)
           THEN /\ last_call' = [call EXCEPT !.result = member_map, !.wrote = TRUE]
                /\ cache_file' = save_member_cache(cache_file, list_id, member_map, now)
           ELSE /\ last_call' = [call EXCEPT !.result = member_map]
                /\ UNCHANGED cache_file
        /\ UNCHANGED now

\* A call of fetch_clickup_member_map on its own.
FetchMembers(list_id, cache_ttl_minutes, response) ==
    /\ fetch_clickup_member_map(list_id, cache_ttl_minutes, response)
    /\ UNCHANGED otherThanCache

\* A minute passes.
Tick ==
    /\ now < MaxTime
    /\ now' = now + 1
    /\ UNCHANGED <<cache_file, last_call>>
    /\ UNCHANGED otherThanCache

\* ------------------------------------------------------------------ values and text

\* A JSON value as Python holds it: its type, its number (for int, bool and
\* float; a float's whole part, with frac telling whether it has a fraction)
\* and its text, character by character (for str).
Value(type, num, frac, text) == [type |-> type, num |-> num, frac |-> frac, text |-> text]

Null == Value("null", 0, FALSE, <<>>)

IntValue(n) == Value("int", n, FALSE, <<>>)

BoolValue(b) == Value("bool", IF b THEN 1 ELSE 0, FALSE, <<>>)

FloatValue(whole, frac) == Value("float", whole, frac, <<>>)

StrValue(text) == Value("str", 0, FALSE, text)

DigitChars == <<"0", "1", "2", "3", "4", "5", "6", "7", "8", "9">>

IsDigit(c) == \E i \in DOMAIN DigitChars : DigitChars[i] = c

DigitValue(c) == (CHOOSE i \in DOMAIN DigitChars : DigitChars[i] = c) - 1

\* The number a run of decimal digits denotes.
RECURSIVE Number(_)
Number(digits) ==
    IF digits = <<>> THEN 0
    ELSE Number(SubSeq(digits, 1, Len(digits) - 1)) * 10 + DigitValue(digits[Len(digits)])

AllDigits(s) == s # <<>> /\ \A i \in DOMAIN s : IsDigit(s[i])

\* str.strip()
RECURSIVE StripLeft(_)
StripLeft(s) == IF s # <<>> /\ Head(s) = " " THEN StripLeft(Tail(s)) ELSE s

RECURSIVE StripRight(_)
StripRight(s) ==
    IF s # <<>> /\ s[Len(s)] = " " THEN StripRight(SubSeq(s, 1, Len(s) - 1)) ELSE s

Strip(s) == StripRight(StripLeft(s))

\* int(text): blanks around, an optional sign, decimal digits; anything else
\* is a ValueError.
IntOfText(text) ==
    LET t      == Strip(text)
        signed == t # <<>> /\ Head(t) \in {"+", "-"}
        digits == IF signed THEN Tail(t) ELSE t
    IN  IF AllDigits(digits)
        THEN [ok |-> TRUE,
              num |-> IF signed /\ Head(t) = "-" THEN 0 - Number(digits) ELSE Number(digits)]
        ELSE [ok |-> FALSE, num |-> 0]

\* The decimal digits of n, zero-padded to width.
RECURSIVE Padded(_, _)
Padded(n, width) ==
    IF width = 0 THEN <<>>
    ELSE Padded(n \div 10, width - 1) \o <<DigitChars[(n % 10) + 1]>>

\* ------------------------------------------------------------------ priority and due date

\* _safe_int(value, default): int(value) where int() takes the value (a
\* float is truncated, a bool is 0 or 1), the default on TypeError or
\* ValueError.
safe_int(value, default) ==
    IF value.type \in {"int", "bool", "float"} THEN value.num
    ELSE IF value.type = "str" /\ IntOfText(value.text).ok THEN IntOfText(value.text).num
    ELSE default

\* normalize_config: default_priority is 1..4, and 3 when config.json gives
\* anything else.
normalized_default_priority(raw) ==
    IF safe_int(raw, 3) \in 1..4 THEN safe_int(raw, 3) ELSE 3

\* The priority of the payload: the record's own value when it is an int (a
\* bool is an int to isinstance) or the int a string denotes, and the default
\* when that equals none of 1, 2, 3, 4 (True equals 1).
PayloadPriority(priority_raw, default_priority) ==
    LET priority ==
            IF priority_raw.type \in {"int", "bool"} THEN priority_raw
            ELSE IF priority_raw.type = "str" /\ IntOfText(priority_raw.text).ok
                 THEN IntValue(IntOfText(priority_raw.text).num)
            ELSE IntValue(default_priority)
    IN  IF priority.num \in 1..4 THEN priority ELSE IntValue(default_priority)

\* Dates are <<year, month, day>>.
DateBefore(a, b) ==
    \/ a[1] < b[1]
    \/ a[1] = b[1] /\ a[2] < b[2]
    \/ a[1] = b[1] /\ a[2] = b[2] /\ a[3] < b[3]

IsLeap(y) == (y % 4 = 0 /\ y % 100 # 0) \/ y % 400 = 0

DaysInMonth(y, m) ==
    IF m = 2 THEN (IF IsLeap(y) THEN 29 ELSE 28)
    ELSE IF m \in {4, 6, 9, 11} THEN 30 ELSE 31

\* ISO_DATE_RE: four digits, two digits, two digits, with dashes between.
MatchesIsoDate(text) ==
    /\ Len(text) = 10
    /\ text[5] = "-" /\ text[8] = "-"
    /\ \A i \in {1, 2, 3, 4, 6, 7, 9, 10} : IsDigit(text[i])

\* datetime.strptime(text, "%Y-%m-%d").date(), <<>> on ValueError.
DateOfText(text) ==
    LET y == Number(SubSeq(text, 1, 4))
        m == Number(SubSeq(text, 6, 7))
        d == Number(SubSeq(text, 9, 10))
    IN  IF y >= 1 /\ m \in 1..12 /\ d >= 1 /\ d <= DaysInMonth(y, m)
        THEN <<y, m, d>> ELSE <<>>

\* date.isoformat()
isoformat(date) ==
    Padded(date[1], 4) \o <<"-">> \o Padded(date[2], 2) \o <<"-">> \o Padded(date[3], 2)

\* The civil date of a day count from 1970-01-01.
CivilFromDays(z) ==
    LET shifted == z + 719468
        era == shifted \div 146097
        doe == shifted - era * 146097
        yoe == (doe - doe \div 1460 + doe \div 36524 - doe \div 146096) \div 365
        doy == doe - (365 * yoe + yoe \div 4 - yoe \div 100)
        mp  == (5 * doy + 2) \div 153
        d   == doy - (153 * mp + 2) \div 5 + 1
        m   == IF mp < 10 THEN mp + 3 ELSE mp - 9
        y   == yoe + era * 400 + (IF m <= 2 THEN 1 ELSE 0)
    IN  <<y, m, d>>

\* datetime.fromtimestamp(value, tz).date() for a timestamp counted in whole
\* days (86400 s): <<>> when the year leaves 1..9999 and the call raises
\* ValueError or OverflowError.
DateOfTimestamp(days) ==
    IF CivilFromDays(days)[1] \in 1..9999 THEN CivilFromDays(days) ELSE <<>>

\* dateparser.parse found no date in the text.
NotParsed == <<>>

Absent == [raised |-> FALSE, value |-> Null]

\* A date that is not before today is given as text, an earlier one dropped.
FromToday(candidate_date, day) ==
    IF DateBefore(candidate_date, day) THEN Absent
    ELSE [raised |-> FALSE, value |-> StrValue(isoformat(candidate_date))]

\* normalize_due_date_value(raw_value, timezone_name) on the day `day`, with
\* `parsed` the local date dateparser.parse gives for a text that is no
\* YYYY-MM-DD date. A list is a Value of type "list" with its length as num
\* and its first element, a string, as text.
normalize_due_date_value(raw_value, day, parsed) ==
    LET raw  == IF raw_value.type = "list" /\ raw_value.num > 0
                THEN StrValue(raw_value.text) ELSE raw_value
        text == Strip(raw.text)
    IN  IF raw.type = "null" THEN Absent
        ELSE IF raw.type = "str"
        THEN IF text = <<>> THEN Absent
             ELSE IF MatchesIsoDate(text)
             THEN (IF DateOfText(text) = <<>> THEN Absent
                   ELSE FromToday(DateOfText(text), day))
             ELSE IF parsed = NotParsed THEN Absent
             ELSE FromToday(parsed, day)
        ELSE IF raw.type \in {"int", "float", "bool"}
        THEN IF DateOfTimestamp(raw.num) = <<>>
             THEN [raised |-> TRUE, value |-> Null]
             ELSE FromToday(DateOfTimestamp(raw.num), day)
        ELSE Absent

NoPayload == [priority |-> Null, has_due_date |-> FALSE, due_date |-> <<>>]

\* build_clickup_payload(task, default_priority): the priority, and the due
\* date (to_epoch_millis of the date, kept here as the date) when the record
\* holds one as a text that parses.
build_clickup_payload(record, default_priority) ==
    LET due == record.due_date
        has == due.type = "str" /\ due.text # <<>>
               /\ MatchesIsoDate(Strip(due.text)) /\ DateOfText(Strip(due.text)) # <<>>
    IN  [priority     |-> PayloadPriority(record.priority, default_priority),
         has_due_date |-> has,
         due_date     |-> IF has THEN DateOfText(Strip(due.text)) ELSE <<>>]

\* The priorities a task record may carry: null or missing, integers in and
\* out of range, booleans, floats, and strings.
PriorityValues ==
    {Null, BoolValue(TRUE), BoolValue(FALSE), FloatValue(2, FALSE), FloatValue(2, TRUE)}
    \cup {IntValue(n) : n \in {0 - 1, 0, 1, 2, 3, 4, 5}}
    \cup {StrValue(x) : x \in {<<"3">>, <<" ", "2", " ">>, <<"7">>, <<"2", ".", "5">>, <<"h", "i">>, <<>>}}

\* What config.json may give as default_priority.
RawDefaultPriorities ==
    {Null, IntValue(1), IntValue(4), IntValue(9), BoolValue(TRUE), FloatValue(2, TRUE),
     StrValue(<<"2">>), StrValue(<<"h", "i">>)}

Todays == {<<2026, 11, 1>>, <<2030, 1, 5>>}

\* The due dates a task record may carry: null, strict dates (past, the day
\* itself, future, no date of the calendar), such a date with blanks around
\* it, other text, timestamps, lists.
DueDateValues ==
    {Null, StrValue(<<>>), StrValue(<<"1", "9", "9", "9", "-", "0", "1", "-", "0", "1">>), StrValue(<<"2", "0", "3", "0", "-", "0", "1", "-", "0", "5">>), StrValue(<<"2", "0", "3", "0", "-", "0", "1", "-", "0", "6">>), StrValue(<<"2", "0", "3", "0", "-", "0", "2", "-", "3", "0">>),
     StrValue(<<" ">> \o <<"2", "0", "3", "0", "-", "0", "1", "-", "0", "6">> \o <<" ">>), StrValue(<<"h", "i">>),
     IntValue(0), IntValue(47482), IntValue(20458000), BoolValue(TRUE),
     Value("list", 1, FALSE, <<"2", "0", "3", "0", "-", "0", "1", "-", "0", "6">>), Value("list", 0, FALSE, <<>>), Value("dict", 0, FALSE, <<>>)}

\* What dateparser.parse gives for a text: nothing, or any date.
ParsedDates == {NotParsed, <<2026, 10, 31>>, <<2030, 1, 5>>, <<2031, 3, 1>>}

NoTask == [priority |-> Null, due_date |-> Null]

PayloadOff ==
    /\ pl_pc = "off"
    /\ raw_default_priority = Null
    /\ today = <<1970, 1, 1>>
    /\ task_record = NoTask
    /\ task_payload = NoPayload

\* One pass of the task loop up to the create call: the due date of the record
\* is normalized and the payload built. An exception raised here leaves the
\* loop and run_once.
BuildPayload(parsed) ==
    /\ pl_pc = "task"
    /\ LET due == normalize_due_date_value(task_record.due_date, today, parsed)
           normalized == [task_record EXCEPT !.due_date = due.value]
       IN  IF due.raised
           THEN /\ pl_pc' = "raised"
                /\ UNCHANGED <<task_record, task_payload>>
           ELSE /\ pl_pc' = "built"
                /\ task_record' = normalized
                /\ task_payload' = build_clickup_payload(
                                  normalized,
                                  normalized_default_priority(raw_default_priority))
    /\ UNCHANGED <<raw_default_priority, today>>
    /\ UNCHANGED otherThanPayload

\* ------------------------------------------------------------------ re-creation utility

\* Messages in a result file and the largest --limit tried.
MaxFileMessages == 2

MaxLimit == 3

\* A task record of a result file: whether it bears clickup_task_id, and the
\* marks this invocation leaves.
FileTask(has_id) ==
    [clickup_task_id |-> has_id, clickup_error |-> FALSE, clickup_dry_run |-> FALSE]

FileTaskLists == SeqsUpTo({FileTask(TRUE), FileTask(FALSE)}, MaxTasks)

\* The result files: up to MaxFileMessages messages, each with its tasks.
ResultFiles == SeqsUpTo(FileTaskLists, MaxFileMessages)

\* The command lines: --limit absent, or any integer.
CommandLines ==
    [force : BOOLEAN, dry_run : BOOLEAN, has_limit : {FALSE}, limit : {0}]
    \cup [force : BOOLEAN, dry_run : BOOLEAN, has_limit : {TRUE}, limit : (0 - 1)..MaxLimit]

\* The <<message, task>> positions of a file in the order the loops visit them.
RECURSIVE PositionsFrom(_, _)
PositionsFrom(messages, v) ==
    IF v > Len(messages) THEN <<>>
    ELSE [t \in DOMAIN messages[v] |-> <<v, t>>] \o PositionsFrom(messages, v + 1)

Positions(messages) == PositionsFrom(messages, 1)

\* limit = args.limit if (args.limit is None or args.limit > 0) else None
LimitInForce(args) == args.has_limit /\ args.limit > 0

\* A loop that lets one more task through.
LimitReachedLate(args, count) == LimitInForce(args) /\ count > args.limit

\* limit is not None and processed >= limit
LimitReached(args, count) == LimitInForce(args) /\ count >= args.limit

\* A loop that skips a task bearing an id whatever --force says.
SkipsExistingAlways(record, args) == record.clickup_task_id

\* existing_id and not args.force
SkipsExisting(record, args) == record.clickup_task_id /\ ~args.force

RecreateOff ==
    /\ rc_pc = "off"
    /\ rc_args = [force |-> FALSE, dry_run |-> FALSE, has_limit |-> FALSE, limit |-> 0]
    /\ rc_file = <<>>
    /\ rc_tasks = <<>>
    /\ rc_next = 0
    /\ processed_count = 0
    /\ create_calls = <<>>

\* One pass of the inner loop: the task counts as processed; it is skipped
\* when it bears an id and --force is absent, marked under --dry-run, and
\* otherwise its create call is issued and the id or the error recorded.
RecreateTask(outcome) ==
    /\ rc_pc = "loop"
    /\ rc_next < Len(Positions(rc_tasks))
    /\ ~LimitReached(rc_args, processed_count)
    /\ LET v == Positions(rc_tasks)[rc_next + 1][1]
           t == Positions(rc_tasks)[rc_next + 1][2]
           record == rc_tasks[v][t]
       IN  IF SkipsExisting(record, rc_args)
           THEN UNCHANGED <<rc_tasks, create_calls>>
           ELSE IF rc_args.dry_run
           THEN /\ rc_tasks' = [rc_tasks EXCEPT ![v][t].clickup_dry_run = TRUE]
                /\ UNCHANGED create_calls
           ELSE /\ create_calls' = [create_calls EXCEPT ![v][t] = @ + 1]
                /\ rc_tasks' =
                      IF outcome = "created"
                      THEN [rc_tasks EXCEPT ![v][t].clickup_task_id = TRUE]
                      ELSE IF outcome = "error"
                      THEN [rc_tasks EXCEPT ![v][t].clickup_error = TRUE]
                      ELSE rc_tasks
    /\ processed_count' = processed_count + 1
    /\ rc_next' = rc_next + 1
    /\ UNCHANGED <<rc_pc, rc_args, rc_file>>
    /\ UNCHANGED otherThanRecreate

\* The loops are left, at the end of the file or at the limit, and the result
\* file *_with_clickup.json is written.
RecreateSave ==
    /\ rc_pc = "loop"
    /\ rc_next = Len(Positions(rc_tasks)) \/ LimitReached(rc_args, processed_count)
    /\ rc_pc' = "saved"
    /\ UNCHANGED <<rc_args, rc_file, rc_tasks, rc_next, processed_count, create_calls>>
    /\ UNCHANGED otherThanRecreate

\* ------------------------------------------------------------------ resolve_assignee_ids

\* Text is a sequence of characters. The letters of the Russian conjunctions
\* are written in Latin: "i" for the conjunction of ASSIGNEE_SPLIT_RE, "ili"
\* for the second word of COMBINED_CONJUNCTION_RE.
Punctuation == {";", ",", "/", "&"}

IsWordChar(c) == c # " " /\ c \notin Punctuation

\* \b before position i of s (i from 1 to Len(s) + 1).
Boundary(s, i) ==
    (i > 1 /\ IsWordChar(s[i - 1])) # (i <= Len(s) /\ IsWordChar(s[i]))

\* word occurs in s at position i, whatever the case (re.IGNORECASE).
MatchAt(s, i, word) ==
    /\ i + Len(word) - 1 <= Len(s)
    /\ \A j \in DOMAIN word : Lower(s[i + j - 1]) = word[j]

\* \s*: the first position from i on that holds no space.
RECURSIVE SkipSpaces(_, _)
SkipSpaces(s, i) == IF i <= Len(s) /\ s[i] = " " THEN SkipSpaces(s, i + 1) ELSE i

\* first \s* / \s* second \b from position i: the position after the match,
\* or 0.
CombinedEnd(s, i, first, second) ==
    LET slash == SkipSpaces(s, i + Len(first))
        tail  == SkipSpaces(s, slash + 1)
    IN  IF /\ MatchAt(s, i, first)
           /\ slash <= Len(s) /\ s[slash] = "/"
           /\ MatchAt(s, tail, second)
           /\ Boundary(s, tail + Len(second))
        THEN tail + Len(second) ELSE 0

\* COMBINED_CONJUNCTION_RE at position i: the position after the match, or 0.
CombinedConjunctionAt(s, i) ==
    IF ~Boundary(s, i) THEN 0
    ELSE IF CombinedEnd(s, i, <<"i">>, <<"i", "l", "i">>) # 0
         THEN CombinedEnd(s, i, <<"i">>, <<"i", "l", "i">>)
    ELSE CombinedEnd(s, i, <<"a", "n", "d">>, <<"o", "r">>)

\* COMBINED_CONJUNCTION_RE.sub(" i ", s), from position i on.
RECURSIVE SubCombined(_, _)
SubCombined(s, i) ==
    IF i > Len(s) THEN <<>>
    ELSE IF CombinedConjunctionAt(s, i) # 0
         THEN <<" ", "i", " ">> \o SubCombined(s, CombinedConjunctionAt(s, i))
    ELSE <<s[i]>> \o SubCombined(s, i + 1)

\* ASSIGNEE_SPLIT_RE at position i: the length of the match, or 0.
SplitMatchAt(s, i) ==
    IF s[i] \in Punctuation THEN 1
    ELSE IF Boundary(s, i) /\ MatchAt(s, i, <<"i">>) /\ Boundary(s, i + 1) THEN 1
    ELSE IF Boundary(s, i) /\ MatchAt(s, i, <<"a", "n", "d">>) /\ Boundary(s, i + 3) THEN 3
    ELSE 0

\* ASSIGNEE_SPLIT_RE.split(s), from position i on, part being the piece read
\* so far.
RECURSIVE SplitParts(_, _, _)
SplitParts(s, i, part) ==
    IF i > Len(s) THEN <<part>>
    ELSE IF SplitMatchAt(s, i) # 0
         THEN <<part>> \o SplitParts(s, i + SplitMatchAt(s, i), <<>>)
    ELSE SplitParts(s, i + 1, Append(part, s[i]))

\* filter(None, (part.strip() for part in parts))
StrippedParts(parts) == SelectSeq([k \in DOMAIN parts |-> Strip(parts[k])], LAMBDA part : part # <<>>)

Fragments(text) == StrippedParts(SplitParts(SubCombined(text, 1), 1, <<>>))

\* An assignee mention as the extraction delivers it: null, a string, a list
\* of strings and other values, or a number.
Mention(type, text, items) == [type |-> type, text |-> text, items |-> items]

NoMention == Mention("none", <<>>, <<>>)

TextMention(text) == Mention("str", text, <<>>)

ListMention(items) == Mention("list", <<>>, items)

Item(is_str, text) == [is_str |-> is_str, text |-> text]

\* not assignee_value
Falsy(value) ==
    \/ value.type = "none"
    \/ value.type = "str" /\ value.text = <<>>
    \/ value.type = "list" /\ value.items = <<>>

\* Candidates that try the fragments before the whole string.
CandidatesFragmentsFirst(value) ==
    IF value.type = "str" THEN Fragments(value.text) \o <<value.text>>
    ELSE <<>>

\* The candidates: the whole string and then its fragments, or the strings of
\* a list.
Candidates(value) ==
    IF value.type = "str" THEN <<value.text>> \o Fragments(value.text)
    ELSE IF value.type = "list"
         THEN LET strings == SelectSeq(value.items, LAMBDA item : item.is_str)
              IN  [k \in DOMAIN strings |-> strings[k].text]
    ELSE <<>>

\* for member_id in ids: if member_id not in resolved: resolved.append(member_id)
RECURSIVE AppendNew(_, _)
AppendNew(ids, found) ==
    IF ids = <<>> THEN found
    ELSE AppendNew(Tail(ids),
                   IF Head(ids) \in Range(found) THEN found ELSE Append(found, Head(ids)))

\* The loop over the candidates.
RECURSIVE ResolveCandidates(_, _, _, _)
ResolveCandidates(candidates, assignees, aliases, found) ==
    IF candidates = <<>> THEN found
    ELSE LET normalized == normalize_name(Head(candidates))
             lookup_key == IF normalized \in DOMAIN aliases THEN aliases[normalized]
                           ELSE normalized
             ids == IF lookup_key \in DOMAIN assignees THEN assignees[lookup_key] ELSE <<>>
         IN  ResolveCandidates(Tail(candidates), assignees, aliases,
                               IF normalized = <<>> THEN found ELSE AppendNew(ids, found))

resolve_assignee_ids(value, assignees, aliases) ==
    IF Falsy(value) \/ assignees = EmptyMap THEN <<>>
    ELSE ResolveCandidates(Candidates(value), assignees, aliases, <<>>)

\* The mentions tried.
Mentions ==
    { NoMention,
      Mention("int", <<>>, <<>>),
      TextMention(<<>>),
      TextMention(<<" ", ",", " ">>),
      TextMention(<<"A">>),
      TextMention(<<"b", " ", "a", "n", "d", " ", "a">>),
      TextMention(<<"a", " ", "A", "N", "D", " ", "b">>),
      TextMention(<<"a", " ", "i", " ", "b">>),
      TextMention(<<"b", ",", "a", ";", "b">>),
      TextMention(<<"a", " ", "a", "n", "d", "/", "o", "r", " ", "b">>),
      TextMention(<<"b", " ", "i", " ", "/", " ", "i", "l", "i", " ", "a">>),
      TextMention(<<"a", "&", " ", " ", "B">>),
      TextMention(<<"b", "a", "n", "d", " ", "a">>),
      TextMention(<<"a", "n", "d">>),
      ListMention(<<>>),
      ListMention(<<Item(TRUE, <<"b">>), Item(FALSE, <<>>), Item(TRUE, <<"a", " ", "a", "n", "d", " ", "b">>)>>) }

\* The directories tried, keyed by normalized name.
AssigneeMaps ==
    { EmptyMap,
      (<<"a">> :> <<1>>) @@ (<<"b">> :> <<2>>),
      (<<"a">> :> <<1, 2>>) @@ (<<"b">> :> <<2, 1>>),
      (<<"a">> :> <<1, 1>>),
      (<<"a">> :> <<1>>) @@ (<<"b">> :> <<2>>)
          @@ (<<"a", " ", "a", "n", "d", " ", "b">> :> <<3>>),
      (<<"b", "a", "n", "d">> :> <<3>>) @@ (<<"b">> :> <<2>>) @@ (<<"d">> :> <<1>>) }

\* The alias maps tried, keyed by normalized alias.
AliasMaps ==
    { EmptyMap,
      (<<"b">> :> <<"a">>),
      (<<"a">> :> <<"b">>) @@ (<<"b">> :> <<"a">>),
      (<<"a", " ", "a", "n", "d", " ", "b">> :> <<"b">>) }

ResolveOff ==
    /\ rs_pc = "off"
    /\ rs_value = NoMention
    /\ rs_map = EmptyMap
    /\ rs_aliases = EmptyMap
    /\ rs_ids = <<>>

\* The call returns.
Resolve ==
    /\ rs_pc = "call"
    /\ rs_pc' = "returned"
    /\ rs_ids' = resolve_assignee_ids(rs_value, rs_map, rs_aliases)
    /\ UNCHANGED <<rs_value, rs_map, rs_aliases>>
    /\ UNCHANGED otherThanResolve

\* ------------------------------------------------------------------ file_lock and main

\* Invocations of main that may be alive at once.
MaxInvocations == 3

InvocationIds == 1..MaxInvocations

LockOff ==
    /\ lock_primitive = "none"
    /\ main_pc = [p \in InvocationIds |-> "off"]
    /\ locked = [p \in InvocationIds |-> FALSE]
    /\ lock_holder = None

\* main enters file_lock: without fcntl and msvcrt the body runs at once,
\* otherwise the lock file is opened.
EnterLock(p) ==
    /\ main_pc[p] = "start"
    /\ main_pc' = [main_pc EXCEPT ![p] = IF lock_primitive = "none" THEN "run_once"
                                         ELSE "locking"]
    /\ UNCHANGED <<lock_primitive, locked, lock_holder>>
    /\ UNCHANGED otherThanLock

\* The lock call returns: it does so only while no other handle holds the lock.
Acquire(p) ==
    /\ main_pc[p] = "locking"
    /\ lock_holder = None
    /\ lock_holder' = p
    /\ locked' = [locked EXCEPT ![p] = TRUE]
    /\ main_pc' = [main_pc EXCEPT ![p] = "run_once"]
    /\ UNCHANGED lock_primitive
    /\ UNCHANGED otherThanLock

\* The lock call raises OSError: msvcrt.locking with LK_LOCK gives up after
\* ten attempts one second apart while another handle holds the lock, and
\* either call may fail with an error of the file system. file_lock warns and
\* runs the body without the lock.
LockCallErrors(p) ==
    /\ main_pc[p] = "locking"
    /\ \/ lock_primitive = "msvcrt" /\ lock_holder # None
       \/ lock_holder = None
    /\ main_pc' = [main_pc EXCEPT ![p] = "run_once"]
    /\ UNCHANGED <<lock_primitive, locked, lock_holder>>
    /\ UNCHANGED otherThanLock

\* finally: if locked, the unlock call; the file is closed after it.
Released(p, by_exception) == IF locked[p] THEN None ELSE lock_holder

\* run_once returns or raises, and file_lock is left.
RunOnceEnds(p, by_exception) ==
    /\ main_pc[p] = "run_once"
    /\ main_pc' = [main_pc EXCEPT ![p] = "exited"]
    /\ lock_holder' = Released(p, by_exception)
    /\ locked' = [locked EXCEPT ![p] = FALSE]
    /\ UNCHANGED lock_primitive
    /\ UNCHANGED otherThanLock

\* ------------------------------------------------------------------ state file

\* A file: absent, present but not readable (open raises OSError), or a text.
\* A text is a sequence of tokens: "{" and "}", "k" for the key
\* "last_update_id" with its colon, a number, "x" for a JSON string, "n" for
\* null, "[" and "]", and "?" for bytes that are not UTF-8.
FileOf(kind, text) == [kind |-> kind, text |-> text]

AbsentFile == FileOf("absent", <<>>)

UnreadableFile == FileOf("unreadable", <<>>)

TextFile(text) == FileOf("text", text)

\* json.dumps of the state record {"last_update_id": id}.
StateText(id) == <<"{", "k", DigitChars[id + 1], "}">>

\* The proper prefixes of a text, the empty one included: what a truncated
\* write leaves.
ProperPrefixes(text) == {SubSeq(text, 1, n) : n \in 0..(Len(text) - 1)}

\* The state files a run may find.
StoredStateFiles ==
    {AbsentFile, UnreadableFile}
    \cup {TextFile(StateText(id)) : id \in UpdateIds}
    \cup {TextFile(text) : text \in ProperPrefixes(StateText(1))}
    \cup {TextFile(<<"{", "}">>), TextFile(<<"n">>), TextFile(<<"[", "]">>),
          TextFile(<<"{", "k", "x", "}">>), TextFile(<<"?", "{", "}">>)}

\* What json.load makes of a text: "undecodable" (UnicodeDecodeError),
\* "invalid" (JSONDecodeError), a record with or without the key, or a value
\* that is not a record.
Parsed(kind, id) == [kind |-> kind, id |-> id]

json_load(text) ==
    IF "?" \in Range(text) THEN Parsed("undecodable", None)
    ELSE IF Len(text) = 4 /\ text[1] = "{" /\ text[2] = "k" /\ text[4] = "}"
         THEN IF IsDigit(text[3]) THEN Parsed("record", DigitValue(text[3]))
              ELSE Parsed("record_text_id", None)
    ELSE IF text = <<"{", "}">> THEN Parsed("record", None)
    ELSE IF text \in {<<"n">>, <<"[", "]">>} THEN Parsed("other", None)
    ELSE Parsed("invalid", None)

\* load_state: {} for a missing file, for OSError and for JSONDecodeError;
\* otherwise whatever json.load returns or raises.
load_state(file) ==
    IF file.kind = "absent" \/ file.kind = "unreadable" THEN Parsed("record", None)
    ELSE IF json_load(file.text).kind = "invalid" THEN Parsed("record", None)
    ELSE json_load(file.text)

\* A write that goes to the state file itself.
WritePathInPlace == "state"

\* tempfile.NamedTemporaryFile(dir=file_path.parent, delete=False)
WritePath == "tmp"

StoreOff ==
    /\ st_io_pc = "off"
    /\ fs = [name \in {"state", "tmp"} |-> AbsentFile]
    /\ fs_previous = AbsentFile
    /\ io_content = <<>>
    /\ load_exc = ""
    /\ poll_cursor = None
    /\ poll_filtered = FALSE

\* save_state(state): the content is serialized and the file to write is
\* created empty.
BeginSave(id) ==
    /\ st_io_pc = "idle"
    /\ st_io_pc' = "writing"
    /\ io_content' = StateText(id)
    /\ fs_previous' = fs["state"]
    /\ fs' = [fs EXCEPT ![WritePath] = TextFile(<<>>)]
    /\ UNCHANGED <<load_exc, poll_cursor, poll_filtered>>
    /\ UNCHANGED otherThanStore

\* tmp_file.write(content): the text reaches the file piece by piece.
WritePiece ==
    /\ st_io_pc = "writing"
    /\ Len(fs[WritePath].text) < Len(io_content)
    /\ fs' = [fs EXCEPT ![WritePath] =
                 TextFile(Append(@.text, io_content[Len(@.text) + 1]))]
    /\ UNCHANGED <<st_io_pc, fs_previous, io_content, load_exc, poll_cursor, poll_filtered>>
    /\ UNCHANGED otherThanStore

\* The with block is left: everything is written and the file closed.
CloseWritten ==
    /\ st_io_pc = "writing"
    /\ fs[WritePath].text = io_content
    /\ st_io_pc' = "closed"
    /\ UNCHANGED <<fs, fs_previous, io_content, load_exc, poll_cursor, poll_filtered>>
    /\ UNCHANGED otherThanStore

\* os.replace(tmp_path, file_path): one step of the file system.
ReplaceFile ==
    /\ st_io_pc = "closed"
    /\ st_io_pc' = "replaced"
    /\ fs' = [name \in {"state", "tmp"} |->
                 IF name = "state" THEN fs[WritePath] ELSE AbsentFile]
    /\ UNCHANGED <<fs_previous, io_content, load_exc, poll_cursor, poll_filtered>>
    /\ UNCHANGED otherThanStore

\* os.chmod(file_path, 0o600), its OSError ignored; save_state returns.
ChmodDone ==
    /\ st_io_pc = "replaced"
    /\ st_io_pc' = "saved"
    /\ UNCHANGED <<fs, fs_previous, io_content, load_exc, poll_cursor, poll_filtered>>
    /\ UNCHANGED otherThanStore

\* The process dies inside save_state; the files stay as they are.
CrashInSave ==
    /\ st_io_pc \in {"writing", "closed", "replaced"}
    /\ st_io_pc' = "crashed"
    /\ UNCHANGED <<fs, fs_previous, io_content, load_exc, poll_cursor, poll_filtered>>
    /\ UNCHANGED otherThanStore

\* The exception of run_once lines 1280-1288 for what load_state gave: the
\* UnicodeDecodeError of load_state itself, the AttributeError of state.get
\* on a value that is no record, the TypeError of last_update_id + 1 on an
\* id that is no number.
LoadException(state) ==
    CASE state.kind = "undecodable"    -> "UnicodeDecodeError"
      [] state.kind = "other"          -> "AttributeError"
      [] state.kind = "record_text_id" -> "TypeError"
      [] OTHER                         -> ""

\* A run starts on the state file as it is: load_state, state.get and the
\* set-up of the poll (offset from the cursor, time window without cursor).
LoadState ==
    /\ st_io_pc \in {"idle", "saved", "crashed"}
    /\ LET state == load_state(fs["state"])
       IN  /\ load_exc' = LoadException(state)
           /\ st_io_pc' = IF LoadException(state) = "" THEN "loaded" ELSE "raised"
           /\ poll_cursor' = IF LoadException(state) = "" THEN state.id ELSE None
           /\ poll_filtered' = (LoadException(state) = "" /\ state.id = None)
    /\ UNCHANGED <<fs, fs_previous, io_content>>
    /\ UNCHANGED otherThanStore

\* ------------------------------------------------------------------ worker pools

\* Messages discovered by the poll of one run.
MaxPoolMessages == 3

PoolMessages == 1..wp_count

PoolOff ==
    /\ wp_pc = "off"
    /\ wp_count = 0
    /\ dl_job = <<>>
    /\ dl_seen = {}
    /\ wp_prepared = <<>>
    /\ tr_job = <<>>
    /\ tr_runs = <<>>
    /\ tr_seen = {}
    /\ temp_files = {}
    /\ log_error = <<>>

\* _prepare_audio_job starts in a worker: the temporary file is created.
DownloadStarts(i) ==
    /\ wp_pc = "download"
    /\ i \in PoolMessages
    /\ dl_job[i] = "queued"
    /\ dl_job' = [dl_job EXCEPT ![i] = "running"]
    /\ temp_files' = temp_files \cup {i}
    /\ UNCHANGED <<wp_pc, wp_count, dl_seen, wp_prepared, tr_job, tr_runs, tr_seen, log_error>>
    /\ UNCHANGED otherThanPool

\* download_audio_file returns, or raises and the job removes its file.
DownloadEnds(i, ok) ==
    /\ wp_pc = "download"
    /\ i \in PoolMessages
    /\ dl_job[i] = "running"
    /\ dl_job' = [dl_job EXCEPT ![i] = IF ok THEN "ok" ELSE "failed"]
    /\ temp_files' = IF ok THEN temp_files ELSE temp_files \ {i}
    /\ UNCHANGED <<wp_pc, wp_count, dl_seen, wp_prepared, tr_job, tr_runs, tr_seen, log_error>>
    /\ UNCHANGED otherThanPool

\* An error that lands on every log entry.
ErrorEntriesAll(i) == PoolMessages

\* vm_log = ordered_logs[future_map[future]]: the entry of the job's message.
ErrorEntries(i) == {i}

\* A coordinator that leaves the download pool at the first future.
DownloadsOverAtFirst(seen) == seen # {}

\* for future in as_completed(future_map): the loop ends with the last future.
DownloadsOver(seen) == seen = PoolMessages

\* The coordinator takes a finished download future from as_completed: the
\* prepared message is kept, or the error goes to the log entry. After the
\* last one the pool is left; with prepared messages the transcription jobs
\* are all submitted, without any the run goes on to its end.
ConsumeDownload(i) ==
    /\ wp_pc = "download"
    /\ i \in PoolMessages \ dl_seen
    /\ dl_job[i] \in {"ok", "failed"}
    /\ dl_seen' = dl_seen \cup {i}
    /\ wp_prepared' = IF dl_job[i] = "ok" THEN Append(wp_prepared, i) ELSE wp_prepared
    /\ log_error' = IF dl_job[i] = "ok" THEN log_error
                    ELSE [j \in PoolMessages |->
                             IF j \in ErrorEntries(i) THEN "download" ELSE log_error[j]]
    /\ IF ~DownloadsOver(dl_seen')
       THEN UNCHANGED <<wp_pc, tr_job>>
       ELSE IF wp_prepared' = <<>>
       THEN wp_pc' = "returned" /\ UNCHANGED tr_job
       ELSE /\ wp_pc' = "transcribe"
            /\ tr_job' = [j \in PoolMessages |->
                             IF j \in Range(wp_prepared') THEN "queued" ELSE "none"]
    /\ UNCHANGED <<wp_count, dl_job, tr_runs, tr_seen, temp_files>>
    /\ UNCHANGED otherThanPool

\* _transcribe_and_extract starts in a worker. A job that is submitted runs
\* also while an exception unwinds the coordinator: the pool is shut down
\* with wait=True and without cancelling.
TranscriptionStarts(i) ==
    /\ wp_pc \in {"transcribe", "unwinding"}
    /\ i \in PoolMessages
    /\ tr_job[i] = "queued"
    /\ tr_job' = [tr_job EXCEPT ![i] = "running"]
    /\ tr_runs' = [tr_runs EXCEPT ![i] = @ + 1]
    /\ UNCHANGED <<wp_pc, wp_count, dl_job, dl_seen, wp_prepared, tr_seen, temp_files,
                   log_error>>
    /\ UNCHANGED otherThanPool

TranscriptionEnds(i, ok) ==
    /\ wp_pc \in {"transcribe", "unwinding"}
    /\ i \in PoolMessages
    /\ tr_job[i] = "running"
    /\ tr_job' = [tr_job EXCEPT ![i] = IF ok THEN "ok" ELSE "failed"]
    /\ UNCHANGED <<wp_pc, wp_count, dl_job, dl_seen, wp_prepared, tr_runs, tr_seen,
                   temp_files, log_error>>
    /\ UNCHANGED otherThanPool

\* The coordinator takes a finished transcription future: the error of a
\* failed job goes to the log entry; the tasks of a successful one are
\* materialized in the else branch, where an exception (of the due date
\* normalization, of reading the create response) is caught by nothing. In
\* every case the finally clause removes the audio file of this message.
ConsumeTranscription(i, raises) ==
    /\ wp_pc = "transcribe"
    /\ i \in PoolMessages \ tr_seen
    /\ tr_job[i] \in {"ok", "failed"}
    /\ raises => tr_job[i] = "ok"
    /\ tr_seen' = tr_seen \cup {i}
    /\ temp_files' = temp_files \ {i}
    /\ log_error' = IF tr_job[i] = "ok" THEN log_error
                    ELSE [j \in PoolMessages |->
                             IF j \in ErrorEntries(i) THEN "transcribe" ELSE log_error[j]]
    /\ wp_pc' = IF raises THEN "unwinding"
                ELSE IF tr_seen' = Range(wp_prepared) THEN "returned"
                ELSE "transcribe"
    /\ UNCHANGED <<wp_count, dl_job, dl_seen, wp_prepared, tr_job, tr_runs>>
    /\ UNCHANGED otherThanPool

\* The exception leaves the pool once its jobs have ended, and then run_once.
ExceptionLeaves ==
    /\ wp_pc = "unwinding"
    /\ \A i \in PoolMessages : tr_job[i] \notin {"queued", "running"}
    /\ wp_pc' = "raised"
    /\ UNCHANGED <<wp_count, dl_job, dl_seen, wp_prepared, tr_job, tr_runs, tr_seen,
                   temp_files, log_error>>
    /\ UNCHANGED otherThanPool

\* ------------------------------------------------------------------ HTTP retry policies

RETRYABLE_STATUS_CODES == {408, 425, 429, 500, 502, 503, 504}

\* A request that raises RequestException instead of giving a response.
TransportError == 0

\* What a request may meet.
HttpOutcomes == {TransportError, 200, 400, 401, 404} \cup RETRYABLE_STATUS_CODES

\* max_attempts of both policies.
request_max_attempts == 4

\* backoff_factor = 1.5 seconds, in half seconds.
backoff_factor == 3

\* The Retry-After values tried, in seconds; 2 is also the default without
\* the header.
RetryAfterSeconds == {1, 2}

\* sleep_for = backoff_factor * attempt
TransportDelay(a) == backoff_factor * a

\* sleep_for = backoff_factor * (2 ** (attempt - 1))
StatusDelay(a) == backoff_factor * 2 ^ (a - 1)

\* backoff = retry_after * (2 ** attempt), attempt counted from 0, in half
\* seconds.
TooManyRequestsDelay(retry_after, a) == 2 * retry_after * 2 ^ (a - 1)

HttpOff ==
    /\ hx_pc = "off"
    /\ hx_policy = ""
    /\ hx_attempt = 0
    /\ hx_responses = <<>>
    /\ hx_sleeps = <<>>
    /\ hx_error = ""

\* What one pass of the loop of _request_with_retries does with what the
\* request met: "return", "raise" or the delay to sleep before the next pass.
RequestPolicyStep(outcome, a) ==
    IF outcome = TransportError
    THEN IF a >= request_max_attempts THEN [do |-> "raise", delay |-> 0]
         ELSE [do |-> "sleep", delay |-> TransportDelay(a)]
    ELSE IF outcome \in RETRYABLE_STATUS_CODES /\ a < request_max_attempts
    THEN [do |-> "sleep", delay |-> StatusDelay(a)]
    ELSE IF outcome < 400 THEN [do |-> "return", delay |-> 0]
    ELSE IF a >= request_max_attempts THEN [do |-> "raise", delay |-> 0]
    ELSE [do |-> "sleep", delay |-> StatusDelay(a)]

\* The same for the loop of create_clickup_task: requests.post is called
\* directly, and only 429 is waited upon.
CreatePolicyStep(outcome, a, retry_after) ==
    IF outcome = TransportError THEN [do |-> "raise", delay |-> 0]
    ELSE IF outcome = 429 /\ a < request_max_attempts
    THEN [do |-> "sleep", delay |-> TooManyRequestsDelay(retry_after, a)]
    ELSE IF outcome < 400 THEN [do |-> "return", delay |-> 0]
    ELSE [do |-> "raise", delay |-> 0]

\* One request and what the policy makes of it.
HttpAttempt(outcome, retry_after) ==
    /\ hx_pc = "request"
    /\ hx_responses' = Append(hx_responses, outcome)
    /\ LET step == IF hx_policy = "_request_with_retries"
                   THEN RequestPolicyStep(outcome, hx_attempt)
                   ELSE CreatePolicyStep(outcome, hx_attempt, retry_after)
       IN  /\ hx_pc' = CASE step.do = "return" -> "returned"
                         [] step.do = "raise"  -> "raised"
                         [] OTHER              -> "request"
           /\ hx_sleeps' = IF step.do = "sleep" THEN Append(hx_sleeps, step.delay)
                           ELSE hx_sleeps
           /\ hx_attempt' = IF step.do = "sleep" THEN hx_attempt + 1 ELSE hx_attempt
           /\ hx_error' = IF step.do # "raise" THEN ""
                          ELSE IF outcome = TransportError THEN "ConnectionError"
                          ELSE "HTTPError"
    /\ UNCHANGED hx_policy
    /\ UNCHANGED otherThanHttp

\* ------------------------------------------------------------------ extract_tasks_from_text

\* The content of an extraction response: a JSON list, whose items are records
\* (TRUE) or other values (FALSE), a JSON value that is no list, a text that is
\* no JSON, or no text at all.
Response(kind, items) == [kind |-> kind, items |-> items]

ExtractionResponses ==
    {Response("list", items) : items \in SeqsUpTo(BOOLEAN, MaxTasks)}
    \cup {Response("object", <<>>), Response("bad_json", <<>>), Response("empty", <<>>)}

\* A validation that looks at the list only.
ValidTasksAnyList(response) == response.kind = "list"

\* isinstance(tasks, list) and isinstance(task, dict) for every element; an
\* empty text or one that json.loads rejects raises before.
ValidTasks(response) ==
    /\ response.kind = "list"
    /\ \A k \in DOMAIN response.items : response.items[k]

ExtractOff ==
    /\ ex_pc = "off"
    /\ ex_response = Response("list", <<>>)
    /\ ex_log_error = FALSE
    /\ ex_tasks = 0
    /\ ex_created = 0

\* extract_tasks_from_text after _execute_with_retry has ended: its exception
\* is passed on; a response is parsed and validated, outside the retried
\* operation, and ValueError raised for one that is not a list of records.
ValidateExtraction ==
    /\ ex_pc = "call"
    /\ rt_pc \in {"returned", "raised"}
    /\ ex_pc' = IF rt_pc = "returned" /\ ValidTasks(ex_response) THEN "extracted"
                ELSE "failed"
    /\ UNCHANGED <<ex_response, ex_log_error, ex_tasks, ex_created>>
    /\ UNCHANGED otherThanExtract

\* The coordinator collects the future of the job: an exception goes to the
\* log entry of the message; the tasks of a result are put on the entry and a
\* create call is issued for each.
CollectExtraction ==
    /\ ex_pc \in {"extracted", "failed"}
    /\ ex_pc' = "collected"
    /\ IF ex_pc = "failed"
       THEN /\ ex_log_error' = TRUE
            /\ UNCHANGED <<ex_tasks, ex_created>>
       ELSE /\ ex_tasks' = Len(ex_response.items)
            /\ ex_created' = Len(ex_response.items)
            /\ UNCHANGED ex_log_error
    /\ UNCHANGED ex_response
    /\ UNCHANGED otherThanExtract

\* ------------------------------------------------------------------ completion orders

\* The create outcomes of the tasks one extraction returns.
TaskOutcomeLists ==
    {<<>>, <<"created">>, <<"error">>, <<"created", "no_id">>, <<"error", "created">>}

\* What happens to one message whenever its jobs run: the download fails, the
\* transcription or extraction fails, or the tasks extracted meet the outcomes.
MessageScenarios ==
    {[download |-> FALSE, extracted |-> FALSE, outcomes |-> <<>>],
     [download |-> TRUE, extracted |-> FALSE, outcomes |-> <<>>]}
    \cup {[download |-> TRUE, extracted |-> TRUE, outcomes |-> o] : o \in TaskOutcomeLists}

\* A poll that discovers the audio messages 1 and 2, in either order.
OrderPolls ==
    {<<[update_id |-> 1, audio |-> TRUE], [update_id |-> 2, audio |-> TRUE]>>,
     <<[update_id |-> 2, audio |-> TRUE], [update_id |-> 1, audio |-> TRUE]>>}

OrderOff == scenario = <<>>

\* The future of a download job completes, as the scenario has it.
ScenarioDownload(i) ==
    /\ pc = "download"
    /\ i \in DOMAIN voice_messages
    /\ DownloadDone(i, scenario[voice_messages[i]].download)

\* The future of a transcription job completes with an exception.
ScenarioTranscribeFailed(i) ==
    /\ pc = "transcribe"
    /\ i \in DOMAIN voice_messages
    /\ ~scenario[voice_messages[i]].extracted
    /\ TranscribeFailed(i)

\* The future of a transcription job completes with the extracted tasks.
ScenarioTranscribeDone(i) ==
    /\ pc = "transcribe"
    /\ i \in DOMAIN voice_messages
    /\ scenario[voice_messages[i]].extracted
    /\ TranscribeDone(i, Len(scenario[voice_messages[i]].outcomes))

\* The next create call of the message being materialized.
ScenarioCreateTask ==
    /\ pc = "transcribe"
    /\ cur # 0
    /\ CreateTask(scenario[voice_messages[cur]].outcomes[NextTask(ordered_logs[cur].tasks)],
                  "skip")

\* ------------------------------------------------------------------ the task loop and its reminders

\* int(time.time() * 1000) while the loop runs, in hours.
ClockHours == 10

\* payload['due_date'] of the tasks, in hours: none, past, and future ones.
DueHours == {None, 9, 11, 12, 13}

\* What the reminder call meets: success, an error status, a transport error.
ReminderResults == {"ok", "status", "transport"}

LoopTask(due) ==
    [due_date |-> due, clickup_task_id |-> FALSE, clickup_error |-> FALSE,
     clickup_reminder |-> None]

Event(type, k, outcome) == [type |-> type, task |-> k, outcome |-> outcome]

\* reminders_enabled and payload.get('due_date') and reminder_offset_ms > 0,
\* then remind_time > int(time.time() * 1000).
ReminderDue(enabled, due, offset, clock) ==
    /\ enabled
    /\ due # None
    /\ offset > 0
    /\ due - offset > clock

\* A loop that takes the created id back when the reminder fails.
AfterReminderRevoked(task, result, remind_time) ==
    IF result = "ok" THEN [task EXCEPT !.clickup_reminder = remind_time]
    ELSE [task EXCEPT !.clickup_task_id = FALSE, !.clickup_error = TRUE]

\* create_clickup_reminder logs an error status and returns, so the else
\* branch marks the record; a transport error is raised to the loop, which
\* logs it.
AfterReminder(task, result, remind_time) ==
    IF result = "transport" THEN task
    ELSE [task EXCEPT !.clickup_reminder = remind_time]

\* time.sleep(0.3) of create_clickup_tasks.main, reached unless the create call
\* raised; run_once has no pause in its task loop.
PauseAfter(program, outcome) == program = "create_clickup_tasks" /\ outcome # "error"

MaterializeOff ==
    /\ mt_pc = "off"
    /\ mt_program = "run_once"
    /\ reminders_enabled = FALSE
    /\ reminder_offset_hours = 0
    /\ mt_tasks = <<>>
    /\ mt_k = 0
    /\ mt_totals = [created |-> 0, failed |-> 0]
    /\ mt_events = <<>>

\* One pass of the task loop in a run that is no dry run: the create call,
\* the reminder call when one is due, the pause.
MaterializeTask(outcome, result) ==
    /\ mt_pc = "loop"
    /\ LET k       == mt_k + 1
           task    == mt_tasks[k]
           due     == outcome = "created"
                      /\ ReminderDue(reminders_enabled, task.due_date,
                                     reminder_offset_hours, ClockHours)
           created == [task EXCEPT !.clickup_task_id = TRUE]
           after   == IF outcome = "created"
                      THEN (IF due
                            THEN AfterReminder(created, result,
                                               task.due_date - reminder_offset_hours)
                            ELSE created)
                      ELSE IF outcome = "no_id" /\ mt_program = "create_clickup_tasks"
                      THEN task
                      ELSE [task EXCEPT !.clickup_error = TRUE]
       IN  /\ due <=> result \in ReminderResults
           /\ mt_tasks' = [mt_tasks EXCEPT ![k] = after]
           /\ mt_totals' =
                 [created |-> mt_totals.created + (IF outcome = "created" THEN 1 ELSE 0),
                  failed  |-> mt_totals.failed
                              + (IF outcome # "created" /\ mt_program = "run_once"
                                 THEN 1 ELSE 0)]
           /\ mt_events' = mt_events \o <<Event("create", k, outcome)>>
                 \o (IF due THEN <<Event("reminder", k, result)>> ELSE <<>>)
                 \o (IF PauseAfter(mt_program, outcome)
                     THEN <<Event("pause", k, "")>> ELSE <<>>)
           /\ mt_k' = k
           /\ mt_pc' = IF k = Len(mt_tasks) THEN "done" ELSE "loop"
    /\ UNCHANGED <<mt_program, reminders_enabled, reminder_offset_hours>>
    /\ UNCHANGED otherThanMaterialize

\* ------------------------------------------------------------------ paging of get_recent_voice_messages

\* The page size `limit` of getUpdates, scaled down.
PageLimit == 2

\* The requests one call is followed for.
MaxRequests == 3

\* What the server may answer to one request: any updates up to the page size.
Pages == SeqsUpTo(Updates, PageLimit)

\* `if not updates or len(updates) < limit: break`, then
\* `if max_update_id is None: break`.
PagingEnds(updates, maxid) ==
    \/ updates = <<>>
    \/ Len(updates) < PageLimit
    \/ maxid = None

PagingOff ==
    /\ pg_pc = "off"
    /\ pg_offset = None
    /\ pg_max = None
    /\ pg_voice = <<>>
    /\ pg_requests = 0

\* One pass of the while loop: the request, the scan of the page, the break
\* or the new offset.
FetchPage(updates) ==
    /\ pg_pc = "request"
    /\ pg_requests < MaxRequests
    /\ LET scan == ScanUpdates(updates, pg_voice, pg_max)
       IN  /\ pg_voice' = scan.voice_messages
           /\ pg_max' = scan.max_update_id
           /\ IF PagingEnds(updates, scan.max_update_id)
              THEN /\ pg_pc' = "returned"
                   /\ UNCHANGED pg_offset
              ELSE /\ pg_pc' = "request"
                   /\ pg_offset' = scan.max_update_id + 1
    /\ pg_requests' = pg_requests + 1
    /\ UNCHANGED otherThanPaging

\* ------------------------------------------------------------------ one invocation and its inputs

RunInput(dry, lim, updates) == [dry |-> dry, limit |-> lim, updates |-> updates]

\* The updates a poll from the cursor `stored` may return: update ids ascending
\* and above the cursor, each an audio message or not.
PollsAfter(stored) ==
    {updates \in SeqsUpTo(Updates, 2) :
        /\ \A i \in DOMAIN updates : updates[i].update_id > stored
        /\ \A i \in DOMAIN updates : \A j \in DOMAIN updates :
              i < j => updates[i].update_id < updates[j].update_id}

\* --limit as parse_args gives it: absent, or a number.
LimitArguments == {NoLimit, 0, 1, 2}

InputOff == run_input = RunInput(FALSE, NoLimit, <<>>)

\* The invocation starts with the arguments and the poll result it was given.
StartGivenRun ==
    /\ pc = "idle"
    /\ StartRun(run_input.dry, run_input.limit, run_input.updates)

\* ------------------------------------------------------------------ concurrent cache refresh

\* The pipeline run, under the run lock, and the re-creation utility, which
\* takes no lock.
Writers == {"run_once", "create_clickup_tasks"}

\* The list each process works on.
ListOf(p) == IF p = "run_once" THEN "A" ELSE "B"

\* The member maps a request may give.
FetchedMaps == {BuildMemberMap(ms, EmptyMap) : ms \in DirectoryMembers}

\* The time of the refresh, and the time of the entries found expired.
RefreshTime == 2

StaleEntry == [fetched_at |-> 0, members |-> EmptyMap]

\* The cache file when both processes start: none, or expired entries.
StaleFiles ==
    {NoFile} \cup {[exists |-> TRUE, lists |-> [l \in S |-> StaleEntry]] : S \in SUBSET ListIds}

WritersOff ==
    /\ cw_pc = [p \in Writers |-> "off"]
    /\ cw_file = NoFile
    /\ cw_members = [p \in Writers |-> EmptyMap]
    /\ cw_read = [p \in Writers |-> NoFile]

\* The request of fetch_clickup_member_map returns the members of the list.
MembersFetched(p, member_map) ==
    /\ cw_pc[p] = "fetch"
    /\ cw_pc' = [cw_pc EXCEPT ![p] = "read"]
    /\ cw_members' = [cw_members EXCEPT ![p] = member_map]
    /\ UNCHANGED <<cw_file, cw_read>>
    /\ UNCHANGED otherThanWriters

\* _save_member_cache reads the file back into its payload.
PayloadRead(p) ==
    /\ cw_pc[p] = "read"
    /\ cw_pc' = [cw_pc EXCEPT ![p] = "write"]
    /\ cw_read' = [cw_read EXCEPT ![p] = cw_file]
    /\ UNCHANGED <<cw_file, cw_members>>
    /\ UNCHANGED otherThanWriters

\* _save_member_cache sets the entry of its list in the payload it has read
\* and replaces the file with it.
PayloadWritten(p) ==
    /\ cw_pc[p] = "write"
    /\ cw_pc' = [cw_pc EXCEPT ![p] = "done"]
    /\ cw_file' = save_member_cache(cw_read[p], ListOf(p), cw_members[p], RefreshTime)
    /\ UNCHANGED <<cw_members, cw_read>>
    /\ UNCHANGED otherThanWriters

\* ------------------------------------------------------------------ the utility invoked again

NoOutput == [exists |-> FALSE, data |-> <<>>]

\* A utility that writes its results over the file it has read.
OutputOverInput == "input"

\* tasks_file.with_name(tasks_file.stem + "_with_clickup.json")
OutputFile == "sibling"

NoCalls(messages) == [v \in DOMAIN messages |-> [t \in DOMAIN messages[v] |-> 0]]

RerunOff ==
    /\ rr_run = 0
    /\ rr_out = NoOutput
    /\ rr_first_calls = <<>>

\* The loops are left, at the end of the file or at the limit, and the data
\* with the marks of this invocation is written to the output file.
RecreateWrite ==
    /\ rc_pc = "loop"
    /\ rr_run \in {1, 2}
    /\ rc_next = Len(Positions(rc_tasks)) \/ LimitReached(rc_args, processed_count)
    /\ rc_pc' = "saved"
    /\ IF OutputFile = "sibling"
       THEN /\ rr_out' = [exists |-> TRUE, data |-> rc_tasks]
            /\ UNCHANGED rc_file
       ELSE /\ rc_file' = rc_tasks
            /\ UNCHANGED rr_out
    /\ UNCHANGED <<rc_args, rc_tasks, rc_next, processed_count, create_calls>>
    /\ UNCHANGED <<rr_run, rr_first_calls>>
    /\ UNCHANGED besidesRecreation

\* The utility is invoked again with the same command line and --file: it
\* loads the input file anew.
RecreateAgain ==
    /\ rc_pc = "saved"
    /\ rr_run = 1
    /\ rr_run' = 2
    /\ rr_first_calls' = create_calls
    /\ rc_pc' = "loop"
    /\ rc_tasks' = rc_file
    /\ rc_next' = 0
    /\ processed_count' = 0
    /\ create_calls' = NoCalls(rc_file)
    /\ UNCHANGED <<rc_args, rc_file, rr_out>>
    /\ UNCHANGED besidesRecreation

\* ------------------------------------------------------------------ startup of run_once

\* The list the configuration names.
clickup_list_id == "A"

\* config['assignee_map'] as written by hand: none; a key that differs from a
\* directory name in case and spacing only; a key no member carries; two keys
\* that normalize to the same name.
RawAssigneeMaps ==
    { <<>>,
      << <<(<<" ", "A">>), <<3>>>> >>,
      << <<(<<"o">>), <<3, 1>>>> >>,
      << <<(<<"A">>), <<3>>>>, <<(<<"a", " ">>), <<1>>>> >> }

\* The loop over the configured pairs: the normalized key maps to the ids of
\* the pair, a later pair replacing an earlier one with the same key; blank
\* keys and pairs without ids are dropped.
RECURSIVE PrepareAssigneePairs(_, _)
PrepareAssigneePairs(pairs, prepared) ==
    IF pairs = <<>> THEN prepared
    ELSE LET normalized_key == normalize_name(Head(pairs)[1])
             assignee_ids   == Head(pairs)[2]
             updated ==
                 IF normalized_key = <<>> \/ assignee_ids = <<>> THEN prepared
                 ELSE [k \in DOMAIN prepared \cup {normalized_key} |->
                          IF k = normalized_key THEN assignee_ids ELSE prepared[k]]
         IN  PrepareAssigneePairs(Tail(pairs), updated)

prepare_assignee_map(raw_map) == PrepareAssigneePairs(raw_map, EmptyMap)

\* assignee_map = dict(clickup_member_map); assignee_map.update(config_assignee_map)
MergedAssigneeMap(clickup_member_map, configured) ==
    [k \in DOMAIN clickup_member_map \cup DOMAIN configured |->
        IF k \in DOMAIN configured THEN configured[k] ELSE clickup_member_map[k]]

StartupOff ==
    /\ st_pc = "off"
    /\ config_assignee_map = <<>>
    /\ assignee_map = EmptyMap

\* run_once from its first line to the poll, for a configuration and secrets
\* that pass the startup validation: the member map of the configured list is
\* fetched and the configured map laid over it. An exception of the fetch is
\* caught nowhere in run_once.
RunStartup(cache_ttl_minutes, response) ==
    /\ st_pc \in {"start", "poll", "raised"}
    /\ fetch_clickup_member_map(clickup_list_id, cache_ttl_minutes, response)
    /\ IF last_call'.raised
       THEN /\ st_pc' = "raised"
            /\ assignee_map' = EmptyMap
       ELSE /\ st_pc' = "poll"
            /\ assignee_map' = MergedAssigneeMap(last_call'.result,
                                                 prepare_assignee_map(config_assignee_map))
    /\ UNCHANGED config_assignee_map
    /\ UNCHANGED otherThanStartup

\* A minute passes between two runs.
StartupTick ==
    /\ now < MaxTime
    /\ now' = now + 1
    /\ UNCHANGED <<cache_file, last_call, startupVars>>
    /\ UNCHANGED otherThanStartup

\* ------------------------------------------------------------------ specifications

Limits == {NoLimit} \cup (0..MaxVoice)

Init == InitPipeline(None, MaxRuns) /\ RetryOff /\ CacheOff /\ StartupOff /\ PayloadOff /\ RecreateOff /\ ResolveOff /\ LockOff
    /\ StoreOff
    /\ PoolOff
    /\ HttpOff
    /\ ExtractOff
    /\ OrderOff
    /\ MaterializeOff
    /\ PagingOff
    /\ InputOff
    /\ WritersOff
    /\ RerunOff

\* One invocation over whatever cursor earlier runs have left in the state file.
InitRun == (\E stored \in {None} \cup UpdateIds : InitPipeline(stored, 1)) /\ RetryOff /\ CacheOff /\ StartupOff /\ PayloadOff /\ RecreateOff /\ ResolveOff /\ LockOff
    /\ StoreOff
    /\ PoolOff
    /\ HttpOff
    /\ ExtractOff
    /\ OrderOff
    /\ MaterializeOff
    /\ PagingOff
    /\ InputOff
    /\ WritersOff
    /\ RerunOff

\* The steps of a run that nothing interrupts.
RunStep ==
    \/ \E dry \in BOOLEAN, lim \in Limits, updates \in PollResponses :
          StartRun(dry, lim, updates)
    \/ \E i \in 1..MaxVoice, ok \in BOOLEAN : DownloadDone(i, ok)
    \/ \E i \in 1..MaxVoice : TranscribeFailed(i)
    \/ \E i \in 1..MaxVoice, n \in 0..MaxTasks : TranscribeDone(i, n)
    \/ \E outcome \in CreateOutcomes, reminder \in ReminderOutcomes :
          CreateTask(outcome, reminder)
    \/ SaveState
    \/ SaveReport
    \/ SaveArtifact

Next ==
    \/ RunStep
    \/ Crash
    \/ ProcessExit

NextRun == RunStep

Spec == Init /\ [][Next]_vars

\* Invocation after invocation, every run completing.
NextCompleted ==
    \/ RunStep
    \/ ProcessExit

SpecCompleted == Init /\ [][NextCompleted]_vars

SpecRun == InitRun /\ [][NextRun]_vars

\* One invocation that nothing interrupts, its poll succeeding or raising.
NextPolled ==
    \/ RunStep
    \/ PollRaises

SpecPolled == InitRun /\ [][NextPolled]_vars

\* One call of _execute_with_retry on an operation that raises op_failures
\* times and then behaves as op_then says.
InitRetry ==
    /\ InitPipeline(None, 0)
    /\ CacheOff
    /\ StartupOff
    /\ PayloadOff
    /\ RecreateOff /\ ResolveOff /\ LockOff
    /\ StoreOff
    /\ PoolOff
    /\ HttpOff
    /\ ExtractOff
    /\ OrderOff
    /\ MaterializeOff
    /\ PagingOff
    /\ InputOff
    /\ WritersOff
    /\ RerunOff
    /\ rt_pc = "call"
    /\ max_attempts \in 1..MaxAttempts
    /\ base_delay = DefaultBaseDelay
    /\ op_failures \in 0..MaxFailures
    /\ op_then \in {"ok", "exc", "kbd"}
    /\ attempt = 1
    /\ invocations = 0
    /\ last_exc = NoExc
    /\ sleeps = <<>>
    /\ call_result = NoOutcome

NextRetry == RetryAttempt

SpecRetry == InitRetry /\ [][NextRetry]_vars

\* Calls of fetch_clickup_member_map, one after another as the clock runs,
\* starting without a cache file.
InitCache == InitPipeline(None, 0) /\ RetryOff /\ CacheOff /\ StartupOff /\ PayloadOff /\ RecreateOff /\ ResolveOff /\ LockOff
    /\ StoreOff
    /\ PoolOff
    /\ HttpOff
    /\ ExtractOff
    /\ OrderOff
    /\ MaterializeOff
    /\ PagingOff
    /\ InputOff
    /\ WritersOff
    /\ RerunOff

NextCache ==
    \/ \E list_id \in ListIds, ttl \in 0..MaxTtl, response \in NetworkResponses :
          FetchMembers(list_id, ttl, response)
    \/ Tick

SpecCache == InitCache /\ [][NextCache]_vars

\* Runs of the pipeline, one after another as the clock runs, as far as the
\* poll: the configuration is the same in all of them.
InitStartup ==
    /\ InitPipeline(None, 0)
    /\ RetryOff
    /\ CacheOff
    /\ st_pc = "start"
    /\ config_assignee_map \in RawAssigneeMaps
    /\ assignee_map = EmptyMap
    /\ PayloadOff
    /\ RecreateOff /\ ResolveOff /\ LockOff
    /\ StoreOff
    /\ PoolOff
    /\ HttpOff
    /\ ExtractOff
    /\ OrderOff
    /\ MaterializeOff
    /\ PagingOff
    /\ InputOff
    /\ WritersOff
    /\ RerunOff

NextStartup ==
    \/ \E ttl \in 0..MaxTtl, response \in NetworkResponses : RunStartup(ttl, response)
    \/ StartupTick

SpecStartup == InitStartup /\ [][NextStartup]_vars

\* One task record, as extraction or a result file gives it, on its way to
\* the create call, under any default priority of config.json.
InitPayload ==
    /\ InitPipeline(None, 0)
    /\ RetryOff
    /\ CacheOff
    /\ StartupOff
    /\ pl_pc = "task"
    /\ raw_default_priority \in RawDefaultPriorities
    /\ today \in Todays
    /\ task_record \in [priority : PriorityValues, due_date : DueDateValues]
    /\ task_payload = NoPayload
    /\ RecreateOff /\ ResolveOff /\ LockOff
    /\ StoreOff
    /\ PoolOff
    /\ HttpOff
    /\ ExtractOff
    /\ OrderOff
    /\ MaterializeOff
    /\ PagingOff
    /\ InputOff
    /\ WritersOff
    /\ RerunOff

NextPayload == \E parsed \in ParsedDates : BuildPayload(parsed)

SpecPayload == InitPayload /\ [][NextPayload]_vars

\* One invocation of the re-creation utility on any result file under any
\* command line, from the first pass of its loops on.
InitRecreate ==
    /\ InitPipeline(None, 0)
    /\ RetryOff
    /\ CacheOff
    /\ StartupOff
    /\ PayloadOff
    /\ rc_pc = "loop"
    /\ rc_args \in CommandLines
    /\ rc_file \in ResultFiles
    /\ rc_tasks = rc_file
    /\ rc_next = 0
    /\ processed_count = 0
    /\ create_calls = [v \in DOMAIN rc_tasks |-> [t \in DOMAIN rc_tasks[v] |-> 0]]
    /\ ResolveOff /\ LockOff
    /\ StoreOff
    /\ PoolOff
    /\ HttpOff
    /\ ExtractOff
    /\ OrderOff
    /\ MaterializeOff
    /\ PagingOff
    /\ InputOff
    /\ WritersOff
    /\ RerunOff

NextRecreate ==
    \/ \E outcome \in CreateOutcomes : RecreateTask(outcome)
    \/ RecreateSave

SpecRecreate == InitRecreate /\ [][NextRecreate]_vars

\* One call of resolve_assignee_ids on any mention, directory and alias map.
InitResolve ==
    /\ InitPipeline(None, 0)
    /\ RetryOff
    /\ CacheOff
    /\ StartupOff
    /\ PayloadOff
    /\ RecreateOff
    /\ rs_pc = "call"
    /\ rs_value \in Mentions
    /\ rs_map \in AssigneeMaps
    /\ rs_aliases \in AliasMaps
    /\ rs_ids = <<>>
    /\ LockOff
    /\ StoreOff
    /\ PoolOff
    /\ HttpOff
    /\ ExtractOff
    /\ OrderOff
    /\ MaterializeOff
    /\ PagingOff
    /\ InputOff
    /\ WritersOff
    /\ RerunOff

NextResolve == Resolve

SpecResolve == InitResolve /\ [][NextResolve]_vars

\* Invocations of main started at any times on a platform with fcntl, with
\* msvcrt or with neither.
InitLock ==
    /\ InitPipeline(None, 0)
    /\ RetryOff
    /\ CacheOff
    /\ StartupOff
    /\ PayloadOff
    /\ RecreateOff
    /\ ResolveOff
    /\ StoreOff
    /\ PoolOff
    /\ HttpOff
    /\ ExtractOff
    /\ OrderOff
    /\ MaterializeOff
    /\ PagingOff
    /\ InputOff
    /\ WritersOff
    /\ RerunOff
    /\ lock_primitive \in {"fcntl", "msvcrt", "none"}
    /\ main_pc = [p \in InvocationIds |-> "start"]
    /\ locked = [p \in InvocationIds |-> FALSE]
    /\ lock_holder = None

NextLock ==
    \E p \in InvocationIds :
        \/ EnterLock(p)
        \/ Acquire(p)
        \/ LockCallErrors(p)
        \/ \E by_exception \in BOOLEAN : RunOnceEnds(p, by_exception)

SpecLock == InitLock /\ [][NextLock]_vars

\* save_state and load_state on any state file, with a crash anywhere inside
\* save_state.
InitStore ==
    /\ InitPipeline(None, 0)
    /\ RetryOff
    /\ CacheOff
    /\ StartupOff
    /\ PayloadOff
    /\ RecreateOff
    /\ ResolveOff
    /\ LockOff
    /\ PoolOff
    /\ HttpOff
    /\ ExtractOff
    /\ OrderOff
    /\ MaterializeOff
    /\ PagingOff
    /\ InputOff
    /\ WritersOff
    /\ RerunOff
    /\ st_io_pc = "idle"
    /\ \E stored \in StoredStateFiles :
          fs = [name \in {"state", "tmp"} |-> IF name = "state" THEN stored ELSE AbsentFile]
    /\ fs_previous = fs["state"]
    /\ io_content = <<>>
    /\ load_exc = ""
    /\ poll_cursor = None
    /\ poll_filtered = FALSE

NextStore ==
    \/ \E id \in UpdateIds : BeginSave(id)
    \/ WritePiece
    \/ CloseWritten
    \/ ReplaceFile
    \/ ChmodDone
    \/ CrashInSave
    \/ LoadState

SpecStore == InitStore /\ [][NextStore]_vars

\* One run from the submission of its download jobs on, over one or more
\* discovered messages, workers and coordinator interleaved.
InitPool ==
    /\ InitPipeline(None, 0)
    /\ RetryOff
    /\ CacheOff
    /\ StartupOff
    /\ PayloadOff
    /\ RecreateOff
    /\ ResolveOff
    /\ LockOff
    /\ StoreOff
    /\ HttpOff
    /\ ExtractOff
    /\ OrderOff
    /\ MaterializeOff
    /\ PagingOff
    /\ InputOff
    /\ WritersOff
    /\ RerunOff
    /\ wp_pc = "download"
    /\ wp_count \in 1..MaxPoolMessages
    /\ dl_job = [i \in 1..wp_count |-> "queued"]
    /\ dl_seen = {}
    /\ wp_prepared = <<>>
    /\ tr_job = [i \in 1..wp_count |-> "none"]
    /\ tr_runs = [i \in 1..wp_count |-> 0]
    /\ tr_seen = {}
    /\ temp_files = {}
    /\ log_error = [i \in 1..wp_count |-> ""]

NextPool ==
    \/ \E i \in 1..MaxPoolMessages : DownloadStarts(i)
    \/ \E i \in 1..MaxPoolMessages, ok \in BOOLEAN : DownloadEnds(i, ok)
    \/ \E i \in 1..MaxPoolMessages : ConsumeDownload(i)
    \/ \E i \in 1..MaxPoolMessages : TranscriptionStarts(i)
    \/ \E i \in 1..MaxPoolMessages, ok \in BOOLEAN : TranscriptionEnds(i, ok)
    \/ \E i \in 1..MaxPoolMessages, raises \in BOOLEAN : ConsumeTranscription(i, raises)
    \/ ExceptionLeaves

SpecPool == InitPool /\ [][NextPool]_vars

\* One call under either HTTP policy, every request meeting any outcome.
InitHttp ==
    /\ InitPipeline(None, 0)
    /\ RetryOff
    /\ CacheOff
    /\ StartupOff
    /\ PayloadOff
    /\ RecreateOff
    /\ ResolveOff
    /\ LockOff
    /\ StoreOff
    /\ PoolOff
    /\ ExtractOff
    /\ OrderOff
    /\ MaterializeOff
    /\ PagingOff
    /\ InputOff
    /\ WritersOff
    /\ RerunOff
    /\ hx_pc = "request"
    /\ hx_policy \in {"_request_with_retries", "create_clickup_task"}
    /\ hx_attempt = 1
    /\ hx_responses = <<>>
    /\ hx_sleeps = <<>>
    /\ hx_error = ""

NextHttp == \E outcome \in HttpOutcomes, retry_after \in RetryAfterSeconds :
                HttpAttempt(outcome, retry_after)

SpecHttp == InitHttp /\ [][NextHttp]_vars

\* The extraction of one message in a run that is not a dry run: the service
\* call under _execute_with_retry, the validation of the response, the
\* collection by the coordinator.
InitExtract ==
    /\ InitPipeline(None, 0)
    /\ CacheOff
    /\ StartupOff
    /\ PayloadOff
    /\ RecreateOff
    /\ ResolveOff
    /\ LockOff
    /\ StoreOff
    /\ PoolOff
    /\ HttpOff
    /\ rt_pc = "call"
    /\ max_attempts \in 1..MaxAttempts
    /\ base_delay = DefaultBaseDelay
    /\ op_failures \in 0..MaxFailures
    /\ op_then \in {"ok", "exc"}
    /\ attempt = 1
    /\ invocations = 0
    /\ last_exc = NoExc
    /\ sleeps = <<>>
    /\ call_result = NoOutcome
    /\ ex_pc = "call"
    /\ ex_response \in ExtractionResponses
    /\ ex_log_error = FALSE
    /\ ex_tasks = 0
    /\ ex_created = 0
    /\ OrderOff
    /\ MaterializeOff
    /\ PagingOff
    /\ InputOff
    /\ WritersOff
    /\ RerunOff

NextExtract ==
    \/ RetryAttempt
    \/ ValidateExtraction
    \/ CollectExtraction

SpecExtract == InitExtract /\ [][NextExtract]_vars

\* One run of run_once that is no dry run over two audio messages, the jobs
\* completing in any order, each with the outcome the scenario gives it.
InitOrder ==
    /\ InitPipeline(None, 1)
    /\ RetryOff
    /\ CacheOff
    /\ StartupOff
    /\ PayloadOff
    /\ RecreateOff
    /\ ResolveOff
    /\ LockOff
    /\ StoreOff
    /\ PoolOff
    /\ HttpOff
    /\ ExtractOff
    /\ MaterializeOff
    /\ PagingOff
    /\ InputOff
    /\ WritersOff
    /\ RerunOff
    /\ scenario \in [1..2 -> MessageScenarios]

NextOrder ==
    \/ \E updates \in OrderPolls : StartRun(FALSE, NoLimit, updates)
    \/ \E i \in 1..2 : ScenarioDownload(i)
    \/ \E i \in 1..2 : ScenarioTranscribeFailed(i)
    \/ \E i \in 1..2 : ScenarioTranscribeDone(i)
    \/ ScenarioCreateTask
    \/ SaveState
    \/ SaveReport
    \/ SaveArtifact

SpecOrder == InitOrder /\ [][NextOrder]_vars

\* The task loop of one message with at least one task, in run_once or in the
\* re-creation utility, no dry run and no task skipped.
InitMaterialize ==
    /\ InitPipeline(None, 0)
    /\ RetryOff
    /\ CacheOff
    /\ StartupOff
    /\ PayloadOff
    /\ RecreateOff
    /\ ResolveOff
    /\ LockOff
    /\ StoreOff
    /\ PoolOff
    /\ HttpOff
    /\ ExtractOff
    /\ OrderOff
    /\ PagingOff
    /\ InputOff
    /\ WritersOff
    /\ RerunOff
    /\ mt_pc = "loop"
    /\ mt_program \in {"run_once", "create_clickup_tasks"}
    /\ reminders_enabled \in BOOLEAN
    /\ reminder_offset_hours \in {0, 1, 2}
    /\ mt_tasks \in {[i \in DOMAIN dues |-> LoopTask(dues[i])] :
                        dues \in SeqsUpTo(DueHours, MaxTasks) \ {<<>>}}
    /\ mt_k = 0
    /\ mt_totals = [created |-> 0, failed |-> 0]
    /\ mt_events = <<>>

NextMaterialize ==
    \E outcome \in CreateOutcomes, result \in ReminderResults \cup {"none"} :
        MaterializeTask(outcome, result)

SpecMaterialize == InitMaterialize /\ [][NextMaterialize]_vars

\* One call of get_recent_voice_messages with any stored cursor, against a
\* server that answers each request with any page.
InitPaging ==
    /\ InitPipeline(None, 0)
    /\ RetryOff
    /\ CacheOff
    /\ StartupOff
    /\ PayloadOff
    /\ RecreateOff
    /\ ResolveOff
    /\ LockOff
    /\ StoreOff
    /\ PoolOff
    /\ HttpOff
    /\ ExtractOff
    /\ OrderOff
    /\ MaterializeOff
    /\ InputOff
    /\ WritersOff
    /\ RerunOff
    /\ pg_pc = "request"
    /\ pg_max \in {None} \cup UpdateIds
    /\ pg_offset = IF pg_max = None THEN None ELSE pg_max + 1
    /\ pg_voice = <<>>
    /\ pg_requests = 0

NextPaging == \E updates \in Pages : FetchPage(updates)

SpecPaging == InitPaging /\ [][NextPaging]_vars

\* One invocation of run_once that nothing interrupts, with its arguments and
\* the result of its poll fixed beforehand, over any stored cursor.
InitGiven ==
    /\ \E stored \in {None} \cup UpdateIds :
          /\ InitPipeline(stored, 1)
          /\ run_input \in {RunInput(dry, lim, updates) :
                               dry \in BOOLEAN, lim \in LimitArguments,
                               updates \in PollsAfter(stored)}
    /\ WritersOff
    /\ RerunOff
    /\ RetryOff
    /\ CacheOff
    /\ StartupOff
    /\ PayloadOff
    /\ RecreateOff
    /\ ResolveOff
    /\ LockOff
    /\ StoreOff
    /\ PoolOff
    /\ HttpOff
    /\ ExtractOff
    /\ OrderOff
    /\ MaterializeOff
    /\ PagingOff

NextGiven ==
    \/ StartGivenRun
    \/ \E i \in 1..2, ok \in BOOLEAN : DownloadDone(i, ok)
    \/ \E i \in 1..2 : TranscribeFailed(i)
    \/ \E i \in 1..2, n \in 0..MaxTasks : TranscribeDone(i, n)
    \/ \E outcome \in CreateOutcomes, reminder \in ReminderOutcomes :
          CreateTask(outcome, reminder)
    \/ SaveState
    \/ SaveReport
    \/ SaveArtifact

SpecGiven == InitGiven /\ [][NextGiven]_vars

\* A pipeline run and the re-creation utility, each past a cache miss for its
\* own list, refresh the cache at overlapping times.
InitWriters ==
    /\ InitPipeline(None, 0)
    /\ RetryOff
    /\ CacheOff
    /\ StartupOff
    /\ PayloadOff
    /\ RecreateOff
    /\ ResolveOff
    /\ LockOff
    /\ StoreOff
    /\ PoolOff
    /\ HttpOff
    /\ ExtractOff
    /\ OrderOff
    /\ MaterializeOff
    /\ PagingOff
    /\ InputOff
    /\ RerunOff
    /\ cw_pc = [p \in Writers |-> "fetch"]
    /\ cw_file \in StaleFiles
    /\ cw_members = [p \in Writers |-> EmptyMap]
    /\ cw_read = [p \in Writers |-> NoFile]

NextWriters ==
    \/ \E p \in Writers, member_map \in FetchedMaps : MembersFetched(p, member_map)
    \/ \E p \in Writers : PayloadRead(p)
    \/ \E p \in Writers : PayloadWritten(p)

SpecWriters == InitWriters /\ [][NextWriters]_vars

\* Two consecutive invocations of create_clickup_tasks.main with the same
\* command line on the same input file.
InitRerun ==
    /\ InitPipeline(None, 0)
    /\ RetryOff
    /\ CacheOff
    /\ StartupOff
    /\ PayloadOff
    /\ ResolveOff
    /\ LockOff
    /\ StoreOff
    /\ PoolOff
    /\ HttpOff
    /\ ExtractOff
    /\ OrderOff
    /\ MaterializeOff
    /\ PagingOff
    /\ InputOff
    /\ WritersOff
    /\ rc_pc = "loop"
    /\ rc_args \in CommandLines
    /\ rc_file \in ResultFiles
    /\ rc_tasks = rc_file
    /\ rc_next = 0
    /\ processed_count = 0
    /\ create_calls = NoCalls(rc_file)
    /\ rr_run = 1
    /\ rr_out = NoOutput
    /\ rr_first_calls = <<>>

NextRerun ==
    \/ \E outcome \in CreateOutcomes : RecreateTask(outcome)
    \/ RecreateWrite
    \/ RecreateAgain

SpecRerun == InitRerun /\ [][NextRerun]_vars

\* ------------------------------------------------------------------ claims: cursor and runs

\* C1: the last_update_id persisted in the state file never decreases, whatever
\* the polls return: no step replaces a stored cursor by a smaller one.
C1_CursorNeverDecreases ==
    [][state_file # None => state_file' >= state_file]_vars

\* C2: no extracted task of a message is created in the task service more
\* than once, over runs that may crash and be invoked again.
C2_NoTaskCreatedTwice ==
    \A m \in UpdateIds : \A k \in 1..MaxTasks : clickup_tasks[m][k] <= 1

\* C3: after a crash, every message whose tasks were extracted in the crashed
\* run is either above the persisted cursor (or no cursor is stored), so that
\* the next run polls it again, or has its log entry in a persisted result
\* artifact.
C3_ExtractedWorkSurvivesCrash ==
    pc = "crashed" =>
        \A i \in DOMAIN ordered_logs :
            ordered_logs[i].has_tasks =>
                \/ state_file = None
                \/ ordered_logs[i].update_id > state_file
                \/ ordered_logs[i].update_id \in artifacts

\* The largest element of a non-empty set of ids.
Largest(S) == CHOOSE x \in S : \A y \in S : y <= x

\* C4: at the end of a completed run the persisted cursor is the maximum id
\* among the messages handed to the pipeline when there is one, and otherwise
\* the maximum id the poll reported as seen.
C4_CursorAfterRun ==
    pc = "done" =>
        state_file = IF voice_messages # <<>>
                     THEN Largest(Range(voice_messages))
                     ELSE max_update_id

\* C4 witness: a completed run over one message of id m whose poll saw a larger
\* id has persisted m.
C4_Witness ==
    /\ pc = "done"
    /\ Len(voice_messages) = 1
    /\ max_update_id > voice_messages[1]
    /\ state_file = voice_messages[1]

\* C5: after a completed run, every message the poll handed to it that is at
\* or below the persisted cursor was downloaded, transcribed and extracted
\* without error in some run; a message whose download or transcription failed
\* is not covered by the cursor.
C5_CursorCoversOnlyProcessed ==
    pc = "done" =>
        \A i \in DOMAIN ordered_logs :
            (state_file # None /\ ordered_logs[i].update_id <= state_file)
                => ordered_logs[i].update_id \in processed

\* ------------------------------------------------------------------ claims: retry executor

RetryEnded == rt_pc \in {"returned", "raised"}

\* C6: an operation that fails f times and then succeeds, with f < maxAttempts,
\* has its result returned after exactly f + 1 invocations.
C6_SucceedsAfterFailures ==
    (RetryEnded /\ op_then = "ok" /\ op_failures < max_attempts) =>
        /\ call_result = Returned("ok")
        /\ invocations = op_failures + 1

\* C6 witness: failing twice and then succeeding under maxAttempts = 5 has
\* returned after 3 invocations.
C6_Witness ==
    /\ rt_pc = "returned"
    /\ op_failures = 2
    /\ max_attempts = 5
    /\ invocations = 3

\* C7: an operation that fails on every invocation is invoked exactly
\* maxAttempts times, and the exception of the last invocation is raised as it
\* is: the same object, of the operation's type.
C7_RaisesLastErrorUnchanged ==
    (RetryEnded /\ op_then = "exc") =>
        /\ invocations = max_attempts
        /\ call_result = Raised(Exc(OperationError, invocations))

\* C7 witness: an always-failing operation under maxAttempts = 2 has raised
\* after 2 invocations.
C7_Witness ==
    /\ rt_pc = "raised"
    /\ op_then = "exc"
    /\ max_attempts = 2
    /\ invocations = 2

\* ------------------------------------------------------------------ claims: member directory cache

\* The entry the last call found for its list, if any.
HadEntry == last_call.called /\ last_call.cache_before.exists
            /\ last_call.list_id \in DOMAIN last_call.cache_before.lists

EntryBefore == last_call.cache_before.lists[last_call.list_id]

AgeBefore == last_call.at - EntryBefore.fetched_at

\* C8: a call with ttlMinutes > 0 that finds an entry of its list at most
\* ttlMinutes old returns that entry's member map and makes no network call.
C8_FreshEntryServedFromCache ==
    (HadEntry /\ last_call.ttl_minutes > 0 /\ AgeBefore <= last_call.ttl_minutes) =>
        /\ last_call.result = EntryBefore.members
        /\ ~last_call.network

\* C8 witness: an entry exactly ttlMinutes old, holding a non-empty map, was
\* served without a network call.
C8_Witness ==
    /\ HadEntry
    /\ last_call.ttl_minutes > 0
    /\ AgeBefore = last_call.ttl_minutes
    /\ EntryBefore.members # EmptyMap
    /\ last_call.result = EntryBefore.members
    /\ ~last_call.network

\* C9: a call (caching on) that finds the entry of its list older than
\* ttlMinutes goes to the network; when the fetch gives a member list, the
\* entry of the list becomes the map built from it with the time of the call
\* as its timestamp; the entries of all other lists are as they were.
C9_ExpiredEntryRefetched ==
    (HadEntry /\ last_call.ttl_minutes > 0 /\ AgeBefore > last_call.ttl_minutes) =>
        /\ last_call.network
        /\ last_call.response.kind = "members" =>
              /\ cache_file.exists
              /\ last_call.list_id \in DOMAIN cache_file.lists
              /\ cache_file.lists[last_call.list_id] =
                    [fetched_at |-> last_call.at,
                     members    |-> BuildMemberMap(last_call.response.members, EmptyMap)]
              /\ cache_file.lists[last_call.list_id].fetched_at > EntryBefore.fetched_at
        /\ \A other \in ListIds \ {last_call.list_id} :
              /\ other \in DOMAIN cache_file.lists <=> other \in DOMAIN last_call.cache_before.lists
              /\ other \in DOMAIN cache_file.lists =>
                    cache_file.lists[other] = last_call.cache_before.lists[other]

\* C9 witness: an expired entry was replaced by a different, non-empty map
\* while another list had an entry with a non-empty map.
C9_Witness ==
    /\ HadEntry
    /\ last_call.ttl_minutes > 0
    /\ AgeBefore > last_call.ttl_minutes
    /\ last_call.wrote
    /\ cache_file.lists[last_call.list_id].members # EmptyMap
    /\ cache_file.lists[last_call.list_id].members # EntryBefore.members
    /\ \E other \in DOMAIN cache_file.lists \ {last_call.list_id} :
          cache_file.lists[other].members # EmptyMap

\* C10: a call with ttlMinutes = 0 goes to the network whatever the cache
\* file holds, and leaves the cache file as it was.
C10_ZeroTtlNeverCaches ==
    (last_call.called /\ last_call.ttl_minutes = 0) =>
        /\ last_call.network
        /\ ~last_call.wrote
        /\ cache_file = last_call.cache_before

\* C10 witness: with ttlMinutes = 0 and an entry of the list written in the
\* same minute, the member list was fetched from the network.
C10_Witness ==
    /\ HadEntry
    /\ last_call.ttl_minutes = 0
    /\ AgeBefore = 0
    /\ last_call.network
    /\ last_call.response.kind = "members"
    /\ last_call.result # EmptyMap

\* ------------------------------------------------------------------ claims: startup

\* C11: when the fetch of the member directory fails on the network after all
\* retries, the call returns an empty map and raises nothing, and the run
\* goes on to the poll with the configured assignee map alone.
C11_FailedFetchGivesEmptyMap ==
    (last_call.called /\ last_call.response.kind = "error") =>
        /\ ~last_call.raised
        /\ last_call.result = EmptyMap
        /\ st_pc = "poll"
        /\ assignee_map = prepare_assignee_map(config_assignee_map)

\* C11 witness: the fetch failed while the cache file held an expired,
\* non-empty entry of the list, and the run went on with a non-empty
\* configured map.
C11_Witness ==
    /\ HadEntry
    /\ last_call.response.kind = "error"
    /\ EntryBefore.members # EmptyMap
    /\ st_pc = "poll"
    /\ assignee_map # EmptyMap
    /\ assignee_map = prepare_assignee_map(config_assignee_map)

\* ------------------------------------------------------------------ claims: payload

\* C12: the priority of every payload built is one of the integers 1, 2, 3, 4.
C12_PayloadPriorityInRange ==
    pl_pc = "built" => (task_payload.priority.type = "int" /\ task_payload.priority.num \in 1..4)

\* C13: normalize_due_date_value gives, for every raw value, either no date
\* or a date that is not before today; it raises nothing.
C13_DueDateAbsentOrFromToday ==
    /\ pl_pc # "raised"
    /\ pl_pc = "built" =>
          \/ task_record.due_date = Null /\ ~task_payload.has_due_date
          \/ /\ task_record.due_date.type = "str"
             /\ MatchesIsoDate(task_record.due_date.text)
             /\ ~DateBefore(DateOfText(task_record.due_date.text), today)

\* ------------------------------------------------------------------ claims: task materialization

RunPastTaskLoop == pc \in {"persist", "report", "artifact", "done"}

ErrorsOf(tasks) == Cardinality({k \in DOMAIN tasks : tasks[k].clickup_error})

RECURSIVE SumSeq(_)
SumSeq(numbers) == IF numbers = <<>> THEN 0 ELSE Head(numbers) + SumSeq(Tail(numbers))

LogErrors == SumSeq([i \in DOMAIN ordered_logs |-> ErrorsOf(ordered_logs[i].tasks)])

LogCreated == SumSeq([i \in DOMAIN ordered_logs |-> CreatedCount(ordered_logs[i].tasks)])

LogCreatedCounters == SumSeq([i \in DOMAIN ordered_logs |-> ordered_logs[i].clickup_created])

LogTasks == SumSeq([i \in DOMAIN ordered_logs |-> Len(ordered_logs[i].tasks)])

C15_TotalsAddUp ==
    (pc = "done" /\ ~dry_run) =>
        /\ log_data.total_tasks_created = LogCreated
        /\ log_data.total_tasks_created = LogCreatedCounters
        /\ log_data.total_tasks_created + log_data.total_tasks_failed
              = LogTasks

\* C15 witness: one message whose two tasks were both created, and a total of 2.
C15_Witness ==
    /\ pc = "done"
    /\ ~dry_run
    /\ Len(ordered_logs) = 1
    /\ Len(ordered_logs[1].tasks) = 2
    /\ ordered_logs[1].tasks[1].clickup_task_id
    /\ ordered_logs[1].tasks[2].clickup_task_id
    /\ log_data.total_tasks_created = 2

\* ------------------------------------------------------------------ claims: re-creation utility

\* The place of a task in the order of the file, counted from 1.
Ordinal(v, t) == CHOOSE n \in DOMAIN Positions(rc_file) : Positions(rc_file)[n] = <<v, t>>

\* The create calls of the invocation, over all messages.
TotalCreateCalls == SumSeq([n \in DOMAIN Positions(rc_file) |->
                               create_calls[Positions(rc_file)[n][1]][Positions(rc_file)[n][2]]])

\* The tasks of the file that bear no id, or all of them under --force.
TasksToCreate ==
    {n \in DOMAIN Positions(rc_file) :
        rc_args.force \/ ~rc_file[Positions(rc_file)[n][1]][Positions(rc_file)[n][2]].clickup_task_id}

PositiveLimit == rc_args.has_limit /\ rc_args.limit > 0

\* C16 as stated: once the utility has finished, a task that bore a created id
\* in the input file has had no create call without --force and exactly one
\* create call with --force.
C16_ForcedTaskCreatedOnce ==
    rc_pc = "saved" =>
        \A v \in DOMAIN rc_file : \A t \in DOMAIN rc_file[v] :
            rc_file[v][t].clickup_task_id =>
                create_calls[v][t] = (IF rc_args.force THEN 1 ELSE 0)

\* C16: a task that bore a created id in the input file never has a create
\* call without --force; with --force it has had exactly one once the utility
\* has finished, provided the run is not a dry run and the task is not beyond
\* a positive --limit, and no create call otherwise.
C16_ExistingSkippedUnlessForced ==
    \A v \in DOMAIN rc_file : \A t \in DOMAIN rc_file[v] :
        rc_file[v][t].clickup_task_id =>
            /\ ~rc_args.force => create_calls[v][t] = 0
            /\ (rc_args.force /\ rc_pc = "saved") =>
                  create_calls[v][t] =
                      (IF ~rc_args.dry_run /\ (PositiveLimit => Ordinal(v, t) <= rc_args.limit)
                       THEN 1 ELSE 0)

\* --force on a file whose two tasks both bear an id: each has been re-created
\* by one call.
C16_Witness ==
    /\ rc_pc = "saved"
    /\ rc_args.force /\ ~rc_args.dry_run
    /\ Len(rc_file) = 1 /\ Len(rc_file[1]) = 2
    /\ \A t \in 1..2 : rc_file[1][t].clickup_task_id /\ create_calls[1][t] = 1

\* C17: once the utility has finished, under --limit N with N > 0 at most N
\* create calls were issued over all messages, and exactly N when the file
\* holds N tasks or more that all need creation (no id or --force, no dry
\* run); with the limit absent, zero or negative every task that needs
\* creation has had its create call.
C17_LimitBoundsCreateCalls ==
    rc_pc = "saved" =>
        /\ PositiveLimit => TotalCreateCalls <= rc_args.limit
        /\ ( /\ PositiveLimit
             /\ ~rc_args.dry_run
             /\ Len(Positions(rc_file)) >= rc_args.limit
             /\ TasksToCreate = DOMAIN Positions(rc_file) ) => TotalCreateCalls = rc_args.limit
        /\ (~PositiveLimit /\ ~rc_args.dry_run) => TotalCreateCalls = Cardinality(TasksToCreate)

\* --limit 2 on three tasks without id spread over two messages: two create
\* calls, the third task untouched.
C17_Witness ==
    /\ rc_pc = "saved"
    /\ rc_args.has_limit /\ rc_args.limit = 2 /\ ~rc_args.dry_run
    /\ Len(Positions(rc_file)) = 3 /\ Len(rc_file) = 2
    /\ TasksToCreate = 1..3
    /\ TotalCreateCalls = 2
    /\ create_calls[2][Len(rc_file[2])] = 0

\* A limit of zero or below on a file of tasks to create: no limit applies.
C17_WitnessNoLimit ==
    /\ rc_pc = "saved"
    /\ rc_args.has_limit /\ rc_args.limit <= 0 /\ ~rc_args.dry_run
    /\ TotalCreateCalls = 4

\* ------------------------------------------------------------------ claims: assignee resolution

\* The candidates in the order the claim gives: the whole string, then its
\* fragments; for a list, its strings.
Tried ==
    IF rs_value.type = "str" THEN <<rs_value.text>> \o Fragments(rs_value.text)
    ELSE IF rs_value.type = "list"
         THEN LET strings == SelectSeq(rs_value.items, LAMBDA item : item.is_str)
              IN  [k \in DOMAIN strings |-> strings[k].text]
    ELSE <<>>

\* The ids the directory holds for a candidate, its alias substituted first.
IdsOf(candidate) ==
    LET normalized == normalize_name(candidate)
        lookup_key == IF normalized \in DOMAIN rs_aliases THEN rs_aliases[normalized]
                      ELSE normalized
    IN  IF lookup_key \in DOMAIN rs_map THEN rs_map[lookup_key] ELSE <<>>

\* Where an id is seen: candidate k, place p among the ids of that candidate.
SeenAt(id) == {<<k, p>> \in (DOMAIN Tried) \X (1..2) :
                  p \in DOMAIN IdsOf(Tried[k]) /\ IdsOf(Tried[k])[p] = id}

Earlier(a, b) == a[1] < b[1] \/ (a[1] = b[1] /\ a[2] < b[2])

FirstSeen(id) == CHOOSE a \in SeenAt(id) : \A b \in SeenAt(id) : a = b \/ Earlier(a, b)

\* C18: the list returned holds exactly the ids that the directory gives for
\* the whole string or for one of its fragments, each alias-substituted before
\* the lookup; no id twice; the ids in the order in which they are first seen
\* when the whole string is tried first and the fragments after it in order;
\* and the empty list when no candidate matches.
C18_IdsInFirstSeenOrder ==
    rs_pc = "returned" =>
        /\ \A i, j \in DOMAIN rs_ids : i # j => rs_ids[i] # rs_ids[j]
        /\ Range(rs_ids) = {id \in 1..3 : SeenAt(id) # {}}
        /\ \A i, j \in DOMAIN rs_ids : i < j => Earlier(FirstSeen(rs_ids[i]), FirstSeen(rs_ids[j]))
        /\ (\A k \in DOMAIN Tried : IdsOf(Tried[k]) = <<>>) => rs_ids = <<>>

\* "a AND b" against a directory that knows the whole string, "a" and "b",
\* with "b" an alias of "a": the id of the whole string comes first, then the
\* id of "a" once.
C18_Witness ==
    /\ rs_pc = "returned"
    /\ rs_value = TextMention(<<"a", " ", "A", "N", "D", " ", "b">>)
    /\ Tried = <<rs_value.text, <<"a">>, <<"b">>>>
    /\ rs_aliases = (<<"b">> :> <<"a">>)
    /\ rs_ids = <<3, 1>>

\* "a and/or b": the combined conjunction splits once, into "a" and "b".
C18_WitnessCombined ==
    /\ rs_pc = "returned"
    /\ rs_value = TextMention(<<"a", " ", "a", "n", "d", "/", "o", "r", " ", "b">>)
    /\ rs_aliases = EmptyMap
    /\ rs_ids = <<1, 2>>

\* "band a": no conjunction inside a word.
C18_WitnessWord ==
    /\ rs_pc = "returned"
    /\ rs_value = TextMention(<<"b", "a", "n", "d", " ", "a">>)
    /\ Tried = <<rs_value.text, rs_value.text>>

\* ------------------------------------------------------------------ claims: run report

\* C19: an invocation of run_once that has passed startup validation and has
\* ended, by returning or by an exception of the poll, has persisted its run
\* report.
C19_ReportAlwaysPersisted ==
    pc \in {"done", "raised"} => report_saved

\* ------------------------------------------------------------------ claims: run lock

Running == {p \in InvocationIds : main_pc[p] = "run_once"}

\* C20: on a platform with fcntl or msvcrt at most one invocation of main is
\* inside run_once at any time, and an invocation that has left run_once, by
\* return or by exception, holds the lock no longer.
C20_RunsSerialized ==
    /\ lock_primitive # "none" => Cardinality(Running) <= 1
    /\ \A p \in InvocationIds : main_pc[p] = "exited" => lock_holder # p

\* ------------------------------------------------------------------ claims: state file

\* C21: from the call of save_state on, and after a crash anywhere inside it,
\* the state file holds the complete previous content or the complete new
\* content; and the state file changes in one step only, the rename of the
\* fully written temporary file over it.
C21_StateFileOldOrNew ==
    /\ [](st_io_pc # "off" =>
             (fs["state"] = fs_previous \/ fs["state"] = TextFile(io_content)))
    /\ [][fs'["state"] # fs["state"] =>
             /\ st_io_pc = "closed"
             /\ fs["tmp"] = TextFile(io_content)
             /\ fs'["state"] = TextFile(io_content)]_vars

\* A crash while the temporary file holds part of the new content: the state
\* file still holds the whole previous record.
C21_Witness ==
    /\ st_io_pc = "crashed"
    /\ fs_previous = TextFile(StateText(1))
    /\ io_content = StateText(2)
    /\ fs["tmp"].kind = "text" /\ Len(fs["tmp"].text) \in 1..3
    /\ fs["state"] = fs_previous

\* A state file that is missing, unreadable, or not the text of a state record.
Damaged(file) ==
    \/ file.kind \in {"absent", "unreadable"}
    \/ /\ file.kind = "text"
       /\ file.text # <<"{", "}">>
       /\ \A id \in UpdateIds : file.text # StateText(id)

\* C22: a run that starts on a missing, unreadable or corrupt state file gets
\* no exception from load_state or from reading the cursor, has no cursor, and
\* polls as a first run: no offset, time window applied.
C22_DamagedStateMeansFirstRun ==
    (st_io_pc \in {"loaded", "raised"} /\ Damaged(fs["state"])) =>
        /\ st_io_pc = "loaded"
        /\ load_exc = ""
        /\ poll_cursor = None
        /\ poll_filtered

\* ------------------------------------------------------------------ claims: worker pools

\* C23: when run_once has ended, by return or by an exception raised while the
\* tasks of a message were materialized, no temporary audio file of the run
\* exists.
C23_NoAudioFileLeft ==
    wp_pc \in {"returned", "raised"} => temp_files = {}

\* C29: a log entry carries a download error only if the download of its own
\* message failed, and every failed download that was collected is on its
\* entry; once the download pool is left every message has had its download
\* attempted, and every message whose download succeeded has a transcription
\* job.
C29_DownloadFailureStaysLocal ==
    /\ \A i \in PoolMessages :
          /\ log_error[i] = "download" => dl_job[i] = "failed"
          /\ (i \in dl_seen /\ dl_job[i] = "failed") => log_error[i] = "download"
    /\ wp_pc # "download" =>
          \A i \in PoolMessages :
              /\ dl_job[i] \in {"ok", "failed"}
              /\ dl_job[i] = "ok" => tr_job[i] # "none"

\* Three messages, the download of the second failed: the run has returned,
\* the two others were transcribed and carry no error.
C29_Witness ==
    /\ wp_pc = "returned"
    /\ wp_count = 3
    /\ dl_job = <<"ok", "failed", "ok">>
    /\ tr_job = <<"ok", "none", "ok">>
    /\ log_error = <<"", "download", "">>

C27_InterruptPropagatesAtOnce ==
    (op_then = "kbd" /\ invocations > op_failures) =>
        /\ invocations = op_failures + 1
        /\ rt_pc = "raised"
        /\ call_result = Raised(Exc("KeyboardInterrupt", invocations))
        /\ Len(sleeps) = op_failures

\* An interrupt at the second of five attempts: raised at once, one sleep
\* behind it, three attempts unused.
C27_Witness ==
    /\ op_then = "kbd" /\ op_failures = 1 /\ max_attempts = 5
    /\ rt_pc = "raised"
    /\ invocations = 2
    /\ call_result.exc.type = "KeyboardInterrupt"
    /\ Len(sleeps) = 1

\* ------------------------------------------------------------------ claims: HTTP retry

\* C24: under _request_with_retries a request is followed by another one only
\* if it met a status of the transient set or a transport error; any other
\* error status is raised after that single request.
C24_OnlyTransientRetried ==
    hx_policy = "_request_with_retries" =>
        \A k \in 1..(Len(hx_responses) - 1) :
            hx_responses[k] \in RETRYABLE_STATUS_CODES \cup {TransportError}

\* C25: a create_clickup_task call that has ended was retried after every
\* request that met a transient status or a transport error while attempts
\* remained.
C25_CreateRetriesTransient ==
    (hx_policy = "create_clickup_task" /\ hx_pc \in {"returned", "raised"}) =>
        \A k \in DOMAIN hx_responses :
            (hx_responses[k] \in RETRYABLE_STATUS_CODES \cup {TransportError}
             /\ k < request_max_attempts) => k < Len(hx_responses)

\* C26: in _execute_with_retry and in _request_with_retries the delay slept
\* after failed attempt n is the base delay times 2^(n-1), whatever the kind
\* of failure.
C26_DelaysDouble ==
    /\ \A n \in DOMAIN sleeps : sleeps[n] = base_delay * 2 ^ (n - 1)
    /\ hx_policy = "_request_with_retries" =>
           \A n \in DOMAIN hx_sleeps : hx_sleeps[n] = backoff_factor * 2 ^ (n - 1)

\* ------------------------------------------------------------------ claims: extraction

\* The response is a value that is no list, or a list with an element that is
\* no record.
WrongShape ==
    \/ ex_response.kind = "object"
    \/ ex_response.kind = "list" /\ \E k \in DOMAIN ex_response.items : ~ex_response.items[k]

\* C28: when the extraction service has answered with a value that is no list
\* or with a list holding an element that is no record, it is never called
\* again for that message; once the coordinator has collected the job the
\* error is on the log entry of the message, the entry holds no task and no
\* create call was issued.
C28_WrongShapeNotRetried ==
    (rt_pc = "returned" /\ WrongShape) =>
        /\ invocations = op_failures + 1
        /\ ex_pc = "collected" =>
              (ex_log_error /\ ex_tasks = 0 /\ ex_created = 0)

\* A list of a record and a value that is no record, answered at the second of
\* three attempts: two calls, the error logged, nothing created.
C28_Witness ==
    /\ ex_pc = "collected"
    /\ rt_pc = "returned"
    /\ ex_response = Response("list", <<TRUE, FALSE>>)
    /\ max_attempts = 3 /\ op_failures = 1 /\ invocations = 2
    /\ ex_log_error /\ ex_created = 0

\* ------------------------------------------------------------------ claims: completion orders

\* The messages of the poll whose tasks were extracted, with their scenarios.
Outcomes(u) ==
    IF scenario[u].download /\ scenario[u].extracted THEN scenario[u].outcomes ELSE <<>>

CountOf(outcomes, created) ==
    Cardinality({k \in DOMAIN outcomes : (outcomes[k] = "created") = created})

\* C31: whatever the order in which the download jobs and the transcription
\* jobs complete, the log array of the result lists the messages in discovery
\* order and the totals of created and failed tasks are those the outcomes of
\* the messages add up to.
C31_ResultIndependentOfCompletionOrder ==
    (pc \in {"report", "artifact", "done"} /\ scenario # <<>>) =>
        /\ [i \in DOMAIN log_data.voice_messages |-> log_data.voice_messages[i].update_id]
              = voice_messages
        /\ log_data.total_tasks_created
              = SumSeq([i \in DOMAIN voice_messages |-> CountOf(Outcomes(voice_messages[i]), TRUE)])
        /\ log_data.total_tasks_failed
              = SumSeq([i \in DOMAIN voice_messages |-> CountOf(Outcomes(voice_messages[i]), FALSE)])

\* The second message discovered completes its download first and is
\* materialized first; a task of each message is created, one fails.
C31_Witness ==
    /\ pc = "done"
    /\ scenario # <<>>
    /\ prepared_messages = <<2, 1>>
    /\ voice_messages = <<2, 1>>
    /\ log_data.total_tasks_created = 2
    /\ log_data.total_tasks_failed = 1
    /\ Len(log_data.voice_messages) = 2

\* ------------------------------------------------------------------ claims: task loop

EventsOf(type, k) == {j \in DOMAIN mt_events : mt_events[j].type = type /\ mt_events[j].task = k}

\* C32: for every task created with an id, a reminder call was made if and
\* only if reminders are enabled, the task has a due date and the due date
\* minus the offset lies after the current time, the offset 0 included.
C32_ReminderIffDue ==
    \A k \in 1..mt_k :
        mt_tasks[k].clickup_task_id =>
            (EventsOf("reminder", k) # {}
             <=> /\ reminders_enabled
                 /\ mt_tasks[k].due_date # None
                 /\ mt_tasks[k].due_date - reminder_offset_hours > ClockHours)

\* The reminder call of task k failed.
ReminderFailed(k) ==
    \E j \in EventsOf("reminder", k) : mt_events[j].outcome \in {"status", "transport"}

CreatedAt(k) == \E j \in EventsOf("create", k) : mt_events[j].outcome = "created"

\* C33: a task whose reminder call failed keeps its created id and carries no
\* error; the created counter counts every task created, the failure counter
\* only the failed create calls; the loop goes on to the last task.
C33_ReminderFailureRevokesNothing ==
    /\ \A k \in 1..mt_k :
          ReminderFailed(k) => mt_tasks[k].clickup_task_id /\ ~mt_tasks[k].clickup_error
    /\ mt_totals.created = Cardinality({k \in 1..mt_k : CreatedAt(k)})
    /\ mt_program = "run_once" =>
          mt_totals.failed = Cardinality({k \in 1..mt_k : ~CreatedAt(k)})
    /\ mt_pc = "done" => mt_k = Len(mt_tasks)
    /\ mt_pc = "loop" => mt_k < Len(mt_tasks)

\* The reminder of the first of two tasks meets a transport error; the second
\* task is created after it.
C33_Witness ==
    /\ mt_pc = "done"
    /\ mt_program = "run_once"
    /\ Len(mt_tasks) = 2
    /\ \E j \in EventsOf("reminder", 1) : mt_events[j].outcome = "transport"
    /\ mt_tasks[1].clickup_task_id
    /\ mt_tasks[2].clickup_task_id
    /\ mt_totals = [created |-> 2, failed |-> 0]

\* C34: in run_once a pause lies between any two consecutive create calls.
C34_PauseBetweenCreateCalls ==
    mt_program = "run_once" =>
        \A j \in DOMAIN mt_events :
            (j < Len(mt_events) /\ mt_events[j].type = "create")
                => mt_events[j + 1].type # "create"

\* ------------------------------------------------------------------ claims: task record

\* C35: the pass of the task loop that builds the payload leaves the extracted
\* due date and priority of the task record as extraction produced them.
C35_ExtractedFieldsKept ==
    [][(pl_pc = "task" /\ pl_pc' = "built") =>
          /\ task_record'.due_date = task_record.due_date
          /\ task_record'.priority = task_record.priority]_vars

\* ------------------------------------------------------------------ claims: paging

\* C36: a page that brings no update id greater than the maximum already seen
\* ends the paging, as a page shorter than the page size does.
C36_PagingStopsWithoutNewId ==
    [][(pg_requests' = pg_requests + 1 /\ pg_max # None /\ pg_max' = pg_max)
          => pg_pc' = "returned"]_vars

\* ------------------------------------------------------------------ claims: limit and dry run

\* The run has gone past the point where it persists the cursor.
PastPersist == pc \in {"report", "artifact", "done"}

\* The audio messages of the poll that were not handed to the pipeline.
LeftOut ==
    {run_input.updates[i].update_id :
        i \in {j \in DOMAIN run_input.updates :
                  /\ run_input.updates[j].audio
                  /\ run_input.updates[j].update_id \notin Range(voice_messages)}}

\* C37: when --limit N, N >= 0, has cut the polled batch, every audio message
\* left out has an update id greater than the cursor the run has persisted.
C37_LeftOutStaysAboveCursor ==
    (PastPersist /\ run_input.limit >= 0 /\ state_file # None) =>
        \A u \in LeftOut : u > state_file

\* The result the task service would show had a dry run called it.
NoCreateCall ==
    /\ \A m \in UpdateIds : \A k \in 1..MaxTasks : clickup_tasks[m][k] = 0
    /\ \A i \in DOMAIN ordered_logs : \A k \in DOMAIN ordered_logs[i].tasks :
          /\ ~ordered_logs[i].tasks[k].clickup_task_id
          /\ ~ordered_logs[i].tasks[k].clickup_error
          /\ ~ordered_logs[i].tasks[k].clickup_reminder
    /\ log_data.total_tasks_created = 0
    /\ log_data.total_tasks_failed = 0

\* The cursor a run over the given poll result leaves in the state file,
\* whether dry or not: the greatest id handed to the pipeline, else the
\* greatest id of the poll, else the one stored before.
CursorOfRun ==
    LET ids    == {last_update_id} \cup
                  {run_input.updates[i].update_id : i \in DOMAIN run_input.updates}
        handed == Range(voice_messages)
    IN  IF handed # {} THEN Largest(handed) ELSE Largest(ids)

\* C38: a dry run makes no create call and no reminder call, and the cursor
\* it persists is the one a real run over the same poll result persists.
C38_DryRunAdvancesCursorOnly ==
    /\ dry_run => NoCreateCall
    /\ PastPersist => state_file = CursorOfRun

\* A dry run over two audio messages whose tasks were extracted: no call was
\* made, the cursor stands at the second message.
C38_Witness ==
    /\ pc = "done"
    /\ dry_run
    /\ voice_messages = <<1, 2>>
    /\ \A i \in 1..2 : Len(ordered_logs[i].tasks) > 0
    /\ \A i \in 1..2 : \A k \in DOMAIN ordered_logs[i].tasks :
          ordered_logs[i].tasks[k].clickup_dry_run
    /\ state_file = 2

\* ------------------------------------------------------------------ claims: concurrent cache refresh

FreshEntry(p) == [fetched_at |-> RefreshTime, members |-> cw_members[p]]

\* C39: once the pipeline run and the utility have both refreshed the cache,
\* each for its own list, the file holds the fresh entry of either list.
C39_BothEntriesKept ==
    (\A p \in Writers : cw_pc[p] = "done") =>
        \A p \in Writers :
            /\ ListOf(p) \in DOMAIN cw_file.lists
            /\ cw_file.lists[ListOf(p)] = FreshEntry(p)

\* ------------------------------------------------------------------ claims: the utility invoked again

\* C40: the utility never changes its input file, the ids of the tasks it
\* creates go to the sibling file only, and a second unforced invocation on the
\* same input file issues the create calls the first one issued.
C40_InputFileUntouched ==
    /\ [][rr_run # 0 => rc_file' = rc_file]_vars
    /\ []((rr_run = 2 /\ rc_pc = "saved" /\ ~rc_args.force) =>
             /\ create_calls = rr_first_calls
             /\ rr_out.exists)

\* Two invocations, neither forced nor dry, on a file with one task that bears
\* no id: each has issued the create call and the first has written the id to
\* the sibling file.
C40_Witness ==
    /\ rr_run = 2 /\ rc_pc = "saved"
    /\ ~rc_args.force /\ ~rc_args.dry_run
    /\ rc_file = <<<<FileTask(FALSE)>>>>
    /\ rr_first_calls = <<<<1>>>>
    /\ create_calls = <<<<1>>>>
    /\ rr_out.data[1][1].clickup_task_id

====
